---- MODULE Spec2Model ----
(***************************************************************************)
(* A model of lambda_jwt_router: the Response Builder (package lres), the  *)
(* middleware of package lmw in its two revisions (lmw/lmw.go and the      *)
(* revision kept in unnamed/part_000), the parameter getters of            *)
(* lcom.LambdaParams, the Transport Adapter (Router.ServeHTTP), and the    *)
(* process-wide configuration they read (ExposeServerErrors, the three     *)
(* CORS environment variables); further two requests in the pipeline at    *)
(* once, and a caller that keeps the header map it hands to the builders.  *)
(*                                                                         *)
(* Go values are modelled as follows.  A string is a TLA+ string.  A       *)
(* map[string]string is a record [isNil, m] where m is a function from the *)
(* set of bound keys.  An error is a record tagged by "kind"; the nil      *)
(* error is NoError.  A JSON body is the exact text json.Marshal emits.    *)
(***************************************************************************)
EXTENDS Integers, Sequences, FiniteSets, TLC

VARIABLES
    ExposeServerErrors, \* lres.ExposeServerErrors, process-wide flag
    env,                \* the process environment: the three CORS variables
    call,               \* the Response Builder call made last, with its arguments
    out,                \* what that call returned: [res, err]
    build,              \* the revision of package lmw in use: "lmw.go" or "part_000"
    req,                \* the events.APIGatewayProxyRequest being served
    chain,              \* the middleware wrapped around the handler, outermost first
    handler,            \* the terminal lcom.Handler
    ctxs,               \* ctxs[k]: the context stage k was invoked with
    retStack,           \* the (res, err) pairs returned so far, innermost stage first
    trace,              \* what happened, in order: stages entered and left, log records
    lparams,            \* the lcom.LambdaParams a getter was last called on
    got,                \* that getter and what it returned
    httpReq,            \* the *http.Request the Transport Adapter is serving
    event,              \* the events.APIGatewayProxyRequest it built from it
    hret,               \* what l.Handler returned: [res, err]
    w,                  \* the http.ResponseWriter: headers, status and bytes written
    peer,               \* a second request in the same chain: [req, ctxs, retStack, trace]
    held                \* a header map a caller keeps and hands to the Response Builder

resVars == <<call, out>>
cfgVars == <<ExposeServerErrors, env>>
mwVars == <<build, req, chain, handler, ctxs, retStack, trace>>
paramVars == <<lparams, got>>
httpVars == <<httpReq, event, hret, w>>
concVars == <<peer>>
heapVars == <<held>>

-----------------------------------------------------------------------------
(* Constants of the program *)

ContentTypeKey == "Content-Type"
CORSHeadersHeaderKey == "Access-Control-Allow-Headers"
CORSMethodsHeaderKey == "Access-Control-Allow-Methods"
CORSOriginHeaderKey == "Access-Control-Allow-Origin"
CORSHeadersEnvKey == "LAMBDA_JWT_ROUTER_CORS_HEADERS"
CORSMethodsEnvKey == "LAMBDA_JWT_ROUTER_CORS_METHODS"
CORSOriginEnvKey == "LAMBDA_JWT_ROUTER_CORS_ORIGIN"

StatusOK == 200
StatusBadRequest == 400
StatusInternalServerError == 500

JSONContentType == "application/json; charset=UTF-8"

\* The body Custom substitutes when json.Marshal fails.
FallbackBody ==
    "{\"code\":500,\"message\":\"the server has encountered an unexpected error\"}"

CORSEnvKeys == {CORSHeadersEnvKey, CORSMethodsEnvKey, CORSOriginEnvKey}

\* The response header each CORS environment variable is copied to.
CORSHeaderOf(envKey) ==
    CASE envKey = CORSHeadersEnvKey -> CORSHeadersHeaderKey
      [] envKey = CORSMethodsEnvKey -> CORSMethodsHeaderKey
      [] envKey = CORSOriginEnvKey -> CORSOriginHeaderKey

-----------------------------------------------------------------------------
(* Go values *)

NoError == [kind |-> "nil"]

EmptyMap == [k \in {} |-> ""]
NilMap == [isNil |-> TRUE, m |-> EmptyMap]
MakeMap(f) == [isNil |-> FALSE, m |-> f]

\* m[k] = v on a Go map held as a function.
MapSet(f, k, v) == [x \in DOMAIN f \cup {k} |-> IF x = k THEN v ELSE f[x]]

\* m[k] read from a Go map: the zero value "" when the key is unbound.
MapGet(f, k) == IF k \in DOMAIN f THEN f[k] ELSE ""

\* os.Getenv: "" for an unset variable.
Getenv(k) == env[k]

\* HTTPError.Error(): fmt.Sprintf("error %d: %s", err.Status, err.Message)
HTTPErrorText(h) == "error " \o ToString(h.Status) \o ": " \o h.Message

\* err.Error() of the error values of the model: an HTTPError, an
\* errors.New(text), and an fmt.Errorf("prefix: %w", httpErr).
ErrorText(err) ==
    CASE err.kind = "HTTPError" -> HTTPErrorText(err)
      [] err.kind = "errorString" -> err.text
      [] err.kind = "wrapError" -> err.prefix \o ": " \o HTTPErrorText(err.inner)

\* errors.As(err, &httpErr): the first HTTPError in err's chain, if any.
errorsAs(err) ==
    CASE err.kind = "HTTPError" -> [ok |-> TRUE, target |-> err]
      [] err.kind = "wrapError" -> [ok |-> TRUE, target |-> err.inner]
      [] OTHER -> [ok |-> FALSE, target |-> [kind |-> "HTTPError", Status |-> 0, Message |-> ""]]

\* http.StatusText: the reason phrase of a status, "" for an unassigned code.
StatusText(code) ==
    CASE code = 200 -> "OK"
      [] code = 400 -> "Bad Request"
      [] code = 401 -> "Unauthorized"
      [] code = 418 -> "I'm a teapot"
      [] code = 500 -> "Internal Server Error"
      [] code = 503 -> "Service Unavailable"
      [] OTHER -> ""

\* json.Marshal of an HTTPError: the fields under their json tags, in order.
MarshalHTTPError(status, message) ==
    "{\"status\":" \o ToString(status) \o ",\"message\":\"" \o message \o "\"}"

\* json.Marshal of the values handed to the Response Builder.  A channel
\* has no JSON form: Marshal returns an UnsupportedTypeError.
jsonMarshal(data) ==
    CASE data.kind = "struct{}" -> [b |-> "{}", failed |-> FALSE]
      [] data.kind = "customStruct" ->
            [b |-> "{\"structKey\":\"" \o data.StructKey \o "\"}", failed |-> FALSE]
      [] data.kind = "HTTPError" ->
            [b |-> MarshalHTTPError(data.Status, data.Message), failed |-> FALSE]
      [] data.kind = "chan" -> [b |-> "", failed |-> TRUE]

-----------------------------------------------------------------------------
(* base64.StdEncoding over the bytes the model uses *)

Base64Alphabet == "ABCDEFGHIJKLMNOPQRSTUVWXYZabcdefghijklmnopqrstuvwxyz0123456789+/"

\* The byte value of a one-character string.
Ord(c) ==
    CASE c = "h" -> 104
      [] c = "i" -> 105
      [] c = "v" -> 118
      [] c = "," -> 44

B64Sym(n) == SubSeq(Base64Alphabet, n + 1, n + 1)

RECURSIVE EncodeToString(_)
EncodeToString(s) ==
    IF Len(s) = 0 THEN ""
    ELSE LET b1 == Ord(SubSeq(s, 1, 1))
             b2 == IF Len(s) >= 2 THEN Ord(SubSeq(s, 2, 2)) ELSE 0
             b3 == IF Len(s) >= 3 THEN Ord(SubSeq(s, 3, 3)) ELSE 0
             s1 == B64Sym(b1 \div 4)
             s2 == B64Sym((b1 % 4) * 16 + b2 \div 16)
             s3 == B64Sym((b2 % 16) * 4 + b3 \div 64)
             s4 == B64Sym(b3 % 64)
         IN  IF Len(s) = 1 THEN s1 \o s2 \o "=="
             ELSE IF Len(s) = 2 THEN s1 \o s2 \o s3 \o "="
             ELSE s1 \o s2 \o s3 \o s4 \o EncodeToString(SubSeq(s, 4, Len(s)))

-----------------------------------------------------------------------------
(* Package lres: the Response Builder *)

\* A variant that uses the CORS values read once when the process started,
\* when none was set.
addCors_readAtStart(headers) == headers

addCors_noOverwrite(headers) ==
    LET put(f, envKey) ==
            IF Getenv(envKey) # "" /\ CORSHeaderOf(envKey) \notin DOMAIN f
            THEN MapSet(f, CORSHeaderOf(envKey), Getenv(envKey)) ELSE f
    IN  put(put(put(headers, CORSHeadersEnvKey), CORSMethodsEnvKey), CORSOriginEnvKey)

\* addCors: each non-empty CORS variable is written under its header name.
addCors(headers) ==
    LET put(f, envKey) ==
            IF Getenv(envKey) # ""
            THEN MapSet(f, CORSHeaderOf(envKey), Getenv(envKey)) ELSE f
    IN  put(put(put(headers, CORSHeadersEnvKey), CORSMethodsEnvKey), CORSOriginEnvKey)

Custom(httpStatus, headers, data) ==
    LET m == jsonMarshal(data)
        status == IF m.failed THEN StatusInternalServerError ELSE httpStatus
        b == IF m.failed THEN FallbackBody ELSE m.b
        h0 == IF headers.isNil THEN EmptyMap ELSE headers.m
        h1 == MapSet(h0, ContentTypeKey, JSONContentType)
    IN  [res |-> [StatusCode |-> status,
                  IsBase64Encoded |-> FALSE,
                  Headers |-> addCors(h1),
                  Body |-> b],
         err |-> NoError]

Empty == Custom(StatusOK, NilMap, [kind |-> "struct{}"])

Success(data) == Custom(StatusOK, NilMap, data)

Error_alwaysExpose(err) ==
    LET as == errorsAs(err)
        httpErr == IF as.ok THEN as.target
                   ELSE [kind |-> "HTTPError",
                         Status |-> StatusInternalServerError,
                         Message |-> ErrorText(err)]
    IN  Custom(httpErr.Status, NilMap, httpErr)

Error_ignoreHTTPError(err) ==
    LET httpErr == [kind |-> "HTTPError",
                    Status |-> StatusInternalServerError,
                    Message |-> ErrorText(err)]
        message == IF httpErr.Status >= 500 /\ ~ExposeServerErrors
                   THEN StatusText(httpErr.Status) ELSE httpErr.Message
    IN  Custom(httpErr.Status, NilMap, [httpErr EXCEPT !.Message = message])

Error(err) ==
    LET as == errorsAs(err)
        httpErr == IF as.ok THEN as.target
                   ELSE [kind |-> "HTTPError",
                         Status |-> StatusInternalServerError,
                         Message |-> ErrorText(err)]
        message == IF httpErr.Status >= 500 /\ ~ExposeServerErrors
                   THEN StatusText(httpErr.Status) ELSE httpErr.Message
    IN  Custom(httpErr.Status, NilMap, [httpErr EXCEPT !.Message = message])

StatusAndError(httpStatus, err) ==
    LET httpErr == [kind |-> "HTTPError", Status |-> httpStatus, Message |-> ErrorText(err)]
        message == IF httpErr.Status >= 500 /\ ~ExposeServerErrors
                   THEN StatusText(httpErr.Status) ELSE httpErr.Message
    IN  Custom(httpErr.Status, NilMap, [httpErr EXCEPT !.Message = message])

\* A variant that keeps a Content-Type the caller put in the header map.
File_callerContentType(contentType, headers, fileBytes) ==
    LET h == IF headers.isNil THEN (ContentTypeKey :> contentType)
             ELSE IF ContentTypeKey \in DOMAIN headers.m THEN headers.m
             ELSE MapSet(headers.m, ContentTypeKey, contentType)
    IN  [res |-> [StatusCode |-> StatusOK,
                  IsBase64Encoded |-> FALSE,
                  Headers |-> addCors(h),
                  Body |-> fileBytes],
         err |-> NoError]

File(contentType, headers, fileBytes) ==
    LET h == IF headers.isNil THEN (ContentTypeKey :> contentType)
             ELSE MapSet(headers.m, ContentTypeKey, contentType)
    IN  [res |-> [StatusCode |-> StatusOK,
                  IsBase64Encoded |-> FALSE,
                  Headers |-> addCors(h),
                  Body |-> fileBytes],
         err |-> NoError]

FileB64(contentType, headers, fileBytes) ==
    LET h == IF headers.isNil THEN (ContentTypeKey :> contentType)
             ELSE MapSet(headers.m, ContentTypeKey, contentType)
    IN  [res |-> [StatusCode |-> StatusOK,
                  IsBase64Encoded |-> TRUE,
                  Headers |-> addCors(h),
                  Body |-> EncodeToString(fileBytes)],
         err |-> NoError]

-----------------------------------------------------------------------------
(* The inputs the Response Builder is driven with *)

Statuses == {200, 400, 418, 499, 500, 503, 599}
Messages == {"", "Invalid input", "database down"}
\* The value each CORS variable is set to when it is set.
CORSValueOf(envKey) ==
    CASE envKey = CORSHeadersEnvKey -> "Content-Type,Authorization"
      [] envKey = CORSMethodsEnvKey -> "GET,POST"
      [] envKey = CORSOriginEnvKey -> "*"

HTTPErrors == [kind : {"HTTPError"}, Status : Statuses, Message : Messages]
PlainErrors == [kind : {"errorString"}, text : Messages]
WrappedErrors ==
    [kind : {"wrapError"}, prefix : {"query failed"},
     inner : [kind : {"HTTPError"}, Status : {400, 500}, Message : {"database down"}]]
Errors == HTTPErrors \cup PlainErrors \cup WrappedErrors

Data ==
    {[kind |-> "struct{}"], [kind |-> "chan"],
     [kind |-> "customStruct", StructKey |-> "structValue"],
     [kind |-> "HTTPError", Status |-> 418, Message |-> "Invalid input"]}

\* Header maps a caller passes: nil, empty, an unrelated key, and maps that
\* already hold a Content-Type or an Access-Control-Allow-* entry.
CallerHeaders ==
    {NilMap,
     MakeMap(EmptyMap),
     MakeMap("key" :> "value"),
     MakeMap((CORSOriginHeaderKey :> "https://caller.example") @@ ("key" :> "value")),
     MakeMap((CORSHeadersHeaderKey :> "X-Caller") @@ (CORSMethodsHeaderKey :> "PUT")
             @@ (ContentTypeKey :> "text/plain"))}

ContentTypes == {"text/csv", "image/png"}
FileContents == {"", "h", "hi", "h,i", "hi,v"}

\* The process-wide configuration as it stands when a call is made.
NoCall == [fn |-> "none"]
NoOut == [res |-> [StatusCode |-> 0, IsBase64Encoded |-> FALSE,
                   Headers |-> EmptyMap, Body |-> ""],
          err |-> NoError]

-----------------------------------------------------------------------------
(* Process-wide configuration: operators and test harnesses change it.     *)
(* call and out describe the last call made under the configuration that   *)
(* stands; a change of configuration clears them.                          *)

SetExposeServerErrors ==
    /\ \E b \in BOOLEAN : ExposeServerErrors' = b
    /\ ExposeServerErrors' # ExposeServerErrors
    /\ call' = NoCall /\ out' = NoOut
    /\ UNCHANGED <<env, mwVars, paramVars, httpVars, concVars, heapVars>>

Setenv ==
    /\ \E k \in CORSEnvKeys : env' = [env EXCEPT ![k] = CORSValueOf(k)]
    /\ env' # env
    /\ call' = NoCall /\ out' = NoOut
    /\ UNCHANGED <<ExposeServerErrors, mwVars, paramVars, httpVars, concVars, heapVars>>

Unsetenv ==
    /\ \E k \in CORSEnvKeys : env' = [env EXCEPT ![k] = ""]
    /\ env' # env
    /\ call' = NoCall /\ out' = NoOut
    /\ UNCHANGED <<ExposeServerErrors, mwVars, paramVars, httpVars, concVars, heapVars>>

-----------------------------------------------------------------------------
(* One action per Response Builder entry point.  A caller makes one call   *)
(* at a time and takes the response before the next call is made.          *)

CallCustom ==
    /\ call.fn = "none"
    /\ \E s \in Statuses, h \in CallerHeaders, d \in Data :
          /\ call' = [fn |-> "Custom",
                      httpStatus |-> s, headers |-> h, data |-> d]
          /\ out' = Custom(s, h, d)
    /\ UNCHANGED <<cfgVars, mwVars, paramVars, httpVars, concVars, heapVars>>

CallEmpty ==
    /\ call.fn = "none"
    /\ call' = [fn |-> "Empty", headers |-> NilMap]
    /\ out' = Empty
    /\ UNCHANGED <<cfgVars, mwVars, paramVars, httpVars, concVars, heapVars>>

CallSuccess ==
    /\ call.fn = "none"
    /\ \E d \in Data :
          /\ call' = [fn |-> "Success", headers |-> NilMap, data |-> d]
          /\ out' = Success(d)
    /\ UNCHANGED <<cfgVars, mwVars, paramVars, httpVars, concVars, heapVars>>

CallError ==
    /\ call.fn = "none"
    /\ \E e \in Errors :
          /\ call' = [fn |-> "Error", headers |-> NilMap, err |-> e]
          /\ out' = Error(e)
    /\ UNCHANGED <<cfgVars, mwVars, paramVars, httpVars, concVars, heapVars>>

CallStatusAndError ==
    /\ call.fn = "none"
    /\ \E s \in Statuses, e \in Errors :
          /\ call' = [fn |-> "StatusAndError", headers |-> NilMap,
                      httpStatus |-> s, err |-> e]
          /\ out' = StatusAndError(s, e)
    /\ UNCHANGED <<cfgVars, mwVars, paramVars, httpVars, concVars, heapVars>>

CallFile ==
    /\ call.fn = "none"
    /\ \E ct \in ContentTypes, h \in CallerHeaders, fb \in FileContents :
          /\ call' = [fn |-> "File",
                      contentType |-> ct, headers |-> h, fileBytes |-> fb]
          /\ out' = File(ct, h, fb)
    /\ UNCHANGED <<cfgVars, mwVars, paramVars, httpVars, concVars, heapVars>>

CallFileB64 ==
    /\ call.fn = "none"
    /\ \E ct \in ContentTypes, h \in CallerHeaders, fb \in FileContents :
          /\ call' = [fn |-> "FileB64",
                      contentType |-> ct, headers |-> h, fileBytes |-> fb]
          /\ out' = FileB64(ct, h, fb)
    /\ UNCHANGED <<cfgVars, mwVars, paramVars, httpVars, concVars, heapVars>>

\* The caller takes the response.
TakeResponse ==
    /\ call.fn # "none"
    /\ call' = NoCall /\ out' = NoOut
    /\ UNCHANGED <<cfgVars, mwVars, paramVars, httpVars, concVars, heapVars>>

-----------------------------------------------------------------------------
(* A caller that keeps its header map.  A Go map is a reference: Custom,   *)
(* File and FileB64 write into the map they are given and return that map  *)
(* as the response's Headers.  held is the map of such a caller as it      *)
(* stands; the calls above are made with a map the caller does not keep.   *)

\* A variant in which the builder writes into a copy of the map.
CallerMapAfter_copy(headers, res) == headers

\* The caller's map after a build that was handed headers and returned res:
\* for a nil map the builder made its own; a non-nil map is the very map
\* the response holds.
CallerMapAfter(headers, res) ==
    IF headers.isNil THEN headers ELSE MakeMap(res.Headers)

\* The caller makes a header map, or keeps none.
MakeHeaderMap ==
    /\ \E h \in CallerHeaders : held' = h
    /\ call' = NoCall /\ out' = NoOut
    /\ UNCHANGED <<cfgVars, mwVars, paramVars, httpVars, concVars>>

BuildCustom ==
    /\ \E d \in {[kind |-> "struct{}"], [kind |-> "chan"]} :
          /\ call' = [fn |-> "Custom", httpStatus |-> StatusOK, headers |-> held, data |-> d]
          /\ out' = Custom(StatusOK, held, d)
    /\ held' = CallerMapAfter(held, out'.res)
    /\ UNCHANGED <<cfgVars, mwVars, paramVars, httpVars, concVars>>

BuildFile ==
    /\ \E ct \in ContentTypes :
          /\ call' = [fn |-> "File", contentType |-> ct, headers |-> held, fileBytes |-> "hi"]
          /\ out' = File(ct, held, "hi")
    /\ held' = CallerMapAfter(held, out'.res)
    /\ UNCHANGED <<cfgVars, mwVars, paramVars, httpVars, concVars>>

BuildFileB64 ==
    /\ \E ct \in ContentTypes :
          /\ call' = [fn |-> "FileB64", contentType |-> ct, headers |-> held, fileBytes |-> "hi"]
          /\ out' = FileB64(ct, held, "hi")
    /\ held' = CallerMapAfter(held, out'.res)
    /\ UNCHANGED <<cfgVars, mwVars, paramVars, httpVars, concVars>>

-----------------------------------------------------------------------------
(* Package lcom: context keys, LambdaParams and the parameter resolver *)

\* Keys of the Request Context.  The three map keys are the names the logs
\* show; the others stand for themselves.
LambdaContextIDKey == "LambdaContextIDKey"
LambdaContextMethodKey == "LambdaContextMethodKey"
LambdaContextMultiParamsKey == "multiParams"
LambdaContextPathKey == "LambdaContextPathKey"
LambdaContextPathParamsKey == "pathParams"
LambdaContextQueryParamsKey == "queryParams"
LambdaContextRequestIDKey == "LambdaContextRequestIDKey"
LambdaContextUserIDKey == "LambdaContextUserIDKey"
LambdaContextUserTypeKey == "LambdaContextUserTypeKey"

\* Claim names: the keys of a token's claims and of the context values
\* decoded from it.
JWTClaimAudienceKey == "aud"
JWTClaimEmailKey == "email"
JWTClaimExpiresAtKey == "exp"
JWTClaimFirstNameKey == "firstName"
JWTClaimFullNameKey == "fullName"
JWTClaimIDKey == "jti"
JWTClaimIssuedAtKey == "iat"
JWTClaimIssuerKey == "iss"
JWTClaimLevelKey == "level"
JWTClaimNotBeforeKey == "nbf"
JWTClaimSubjectKey == "sub"
JWTClaimUserTypeKey == "userType"

ErrNoAuthorizationHeader == [kind |-> "errorString", text |-> "no authorization header"]

\* The bytes the UTF-8 encoding of a character takes; of the characters the
\* model uses only "é" (U+00E9) is not ASCII.
UTF8Width(c) == IF c = "é" THEN 2 ELSE 1

\* len(s) of a Go string: the number of bytes of s, not of its characters.
RECURSIVE len(_)
len(s) == IF s = "" THEN 0 ELSE UTF8Width(SubSeq(s, 1, 1)) + len(SubSeq(s, 2, Len(s)))

\* A variant in which a later candidate of the same length wins.
chooseLongest_lastWins(s1) ==
    IF Len(s1) < 1 THEN ""
    ELSE LET longest == CHOOSE i \in 1..Len(s1) :
                            /\ \A j \in 1..Len(s1) : len(s1[j]) <= len(s1[i])
                            /\ \A j \in (i + 1)..Len(s1) : len(s1[j]) < len(s1[i])
         IN  s1[longest]

\* chooseLongest: the first of the longest strings of s1, "" for none.
chooseLongest(s1) ==
    IF Len(s1) < 1 THEN ""
    ELSE LET longest == CHOOSE i \in 1..Len(s1) :
                            /\ \A j \in 1..Len(s1) : len(s1[j]) <= len(s1[i])
                            /\ \A j \in 1..(i - 1) : len(s1[j]) < len(s1[i])
         IN  s1[longest]

GetID(lp) == chooseLongest(<<lp.IDPath, lp.IDQuery>>)
GetUserID(lp) == chooseLongest(<<lp.UserIDPath, lp.UserIDQuery, lp.UserIDBody>>)
GetUserType(lp) == chooseLongest(<<lp.UserTypePath, lp.UserTypeQuery, lp.UserTypeBody>>)

ZeroLambdaParams ==
    [IDPath |-> "", IDQuery |-> "", UserIDBody |-> "", UserIDPath |-> "",
     UserIDQuery |-> "", UserTypeBody |-> "", UserTypePath |-> "", UserTypeQuery |-> ""]

\* The values a path, query or body candidate takes.
Candidates == {"", "1", "22", "abc", "de", "fghij", "éé"}
NoGot == [fn |-> "none", v |-> ""]

InitParams == lparams = ZeroLambdaParams /\ got = NoGot

\* A getter is called on a LambdaParams filled from a request.
CallGetID ==
    /\ \E p, q \in Candidates :
          lparams' = [ZeroLambdaParams EXCEPT !.IDPath = p, !.IDQuery = q]
    /\ got' = [fn |-> "GetID", v |-> GetID(lparams')]
    /\ UNCHANGED <<cfgVars, resVars, mwVars, httpVars, concVars, heapVars>>

CallGetUserID ==
    /\ \E p, q, b \in Candidates :
          lparams' = [ZeroLambdaParams EXCEPT !.UserIDPath = p, !.UserIDQuery = q,
                                         !.UserIDBody = b]
    /\ got' = [fn |-> "GetUserID", v |-> GetUserID(lparams')]
    /\ UNCHANGED <<cfgVars, resVars, mwVars, httpVars, concVars, heapVars>>

CallGetUserType ==
    /\ \E p, q, b \in Candidates :
          lparams' = [ZeroLambdaParams EXCEPT !.UserTypePath = p, !.UserTypeQuery = q,
                                         !.UserTypeBody = b]
    /\ got' = [fn |-> "GetUserType", v |-> GetUserType(lparams')]
    /\ UNCHANGED <<cfgVars, resVars, mwVars, httpVars, concVars, heapVars>>

-----------------------------------------------------------------------------
(* Package lreq: UnmarshalReq into a LambdaParams *)

ValidBody == "{\"userId\":\"u1\",\"userType\":\"admin\"}"

\* json.Unmarshal of a request body: the bodies of the model other than
\* ValidBody (the empty body, a truncated object) are not JSON.
ParseBody(b) ==
    IF b = ValidBody THEN [ok |-> TRUE, userId |-> "u1", userType |-> "admin"]
    ELSE [ok |-> FALSE, userId |-> "", userType |-> ""]

\* UnmarshalReq(req, true, &LambdaParams{}): the body is decoded first and a
\* body that is not JSON fails the call; then the path and query fields.
UnmarshalReq(r) ==
    LET pb == ParseBody(r.Body)
    IN  IF ~pb.ok
        THEN [err |-> [kind |-> "errorString", text |-> "unexpected end of JSON input"],
              params |-> ZeroLambdaParams]
        ELSE [err |-> NoError,
              params |-> [IDPath |-> MapGet(r.PathParameters.m, "id"),
                          IDQuery |-> MapGet(r.QueryStringParameters.m, "id"),
                          UserIDBody |-> pb.userId,
                          UserIDPath |-> MapGet(r.PathParameters.m, "userId"),
                          UserIDQuery |-> MapGet(r.QueryStringParameters.m, "userId"),
                          UserTypeBody |-> pb.userType,
                          UserTypePath |-> MapGet(r.PathParameters.m, "userType"),
                          UserTypeQuery |-> MapGet(r.QueryStringParameters.m, "userType")]]

-----------------------------------------------------------------------------
(* Package ljwt: the Claims Decoder *)

Str(v) == [t |-> "string", v |-> v]
Num(v) == [t |-> "number", v |-> v]

StandardFields ==
    <<[field |-> "Audience", key |-> JWTClaimAudienceKey, t |-> "string"],
      [field |-> "ExpiresAt", key |-> JWTClaimExpiresAtKey, t |-> "number"],
      [field |-> "Id", key |-> JWTClaimIDKey, t |-> "string"],
      [field |-> "IssuedAt", key |-> JWTClaimIssuedAtKey, t |-> "number"],
      [field |-> "Issuer", key |-> JWTClaimIssuerKey, t |-> "string"],
      [field |-> "NotBefore", key |-> JWTClaimNotBeforeKey, t |-> "number"],
      [field |-> "Subject", key |-> JWTClaimSubjectKey, t |-> "string"]>>

ExpandedFields ==
    <<[field |-> "Audience", key |-> JWTClaimAudienceKey, t |-> "string"],
      [field |-> "Email", key |-> JWTClaimEmailKey, t |-> "string"],
      [field |-> "ExpiresAt", key |-> JWTClaimExpiresAtKey, t |-> "number"],
      [field |-> "FirstName", key |-> JWTClaimFirstNameKey, t |-> "string"],
      [field |-> "FullName", key |-> JWTClaimFullNameKey, t |-> "string"],
      [field |-> "ID", key |-> JWTClaimIDKey, t |-> "string"],
      [field |-> "IssuedAt", key |-> JWTClaimIssuedAtKey, t |-> "number"],
      [field |-> "Issuer", key |-> JWTClaimIssuerKey, t |-> "string"],
      [field |-> "Level", key |-> JWTClaimLevelKey, t |-> "string"],
      [field |-> "NotBefore", key |-> JWTClaimNotBeforeKey, t |-> "number"],
      [field |-> "Subject", key |-> JWTClaimSubjectKey, t |-> "string"],
      [field |-> "UserType", key |-> JWTClaimUserTypeKey, t |-> "string"]>>

StandardMapClaims ==
    (JWTClaimAudienceKey :> Str("aud-1")) @@ (JWTClaimExpiresAtKey :> Num(1704500640))
    @@ (JWTClaimIDKey :> Str("jti-1")) @@ (JWTClaimIssuedAtKey :> Num(1704414240))
    @@ (JWTClaimIssuerKey :> Str("iss-1")) @@ (JWTClaimNotBeforeKey :> Num(1704414241))
    @@ (JWTClaimSubjectKey :> Str("sub-1"))

ExpandedMapClaims ==
    StandardMapClaims
    @@ (JWTClaimEmailKey :> Str("a@b.example")) @@ (JWTClaimFirstNameKey :> Str("John"))
    @@ (JWTClaimFullNameKey :> Str("John Doe")) @@ (JWTClaimLevelKey :> Str("gold"))
    @@ (JWTClaimUserTypeKey :> Str("admin"))

\* A verifying token whose claims are only a subject and an expiry.
PartialMapClaims ==
    (JWTClaimSubjectKey :> Str("1234567890")) @@ (JWTClaimExpiresAtKey :> Num(1704500640))

\* A verifying token whose expiry is a string.
BadShapeMapClaims ==
    (JWTClaimSubjectKey :> Str("sub-1")) @@ (JWTClaimExpiresAtKey :> Str("tomorrow"))

NoClaims == [k \in {} |-> Str("")]

BearerPrefix == "Bearer "

\* Signature, expiry and not-before verification of a token: the claims of
\* a token that verifies; 401 for a token that does not; 500 when the
\* verification itself cannot be carried out.
VerifyJWT(token) ==
    CASE token = "tok.expanded" ->
            [mapClaims |-> ExpandedMapClaims, httpStatus |-> StatusOK, err |-> NoError]
      [] token = "tok.standard" ->
            [mapClaims |-> StandardMapClaims, httpStatus |-> StatusOK, err |-> NoError]
      [] token = "tok.partial" ->
            [mapClaims |-> PartialMapClaims, httpStatus |-> StatusOK, err |-> NoError]
      [] token = "tok.badshape" ->
            [mapClaims |-> BadShapeMapClaims, httpStatus |-> StatusOK, err |-> NoError]
      [] token = "tok.keyfail" ->
            [mapClaims |-> NoClaims, httpStatus |-> StatusInternalServerError,
             err |-> [kind |-> "errorString", text |-> "verification failed"]]
      [] OTHER ->
            [mapClaims |-> NoClaims, httpStatus |-> 401,
             err |-> [kind |-> "errorString", text |-> "invalid token"]]

\* ExtractJWT(headers): the bearer token of the Authorization header, verified.
ExtractJWT(headers) ==
    LET h == MapGet(headers.m, "Authorization")
    IN  IF Len(h) < Len(BearerPrefix) \/ SubSeq(h, 1, Len(BearerPrefix)) # BearerPrefix
        THEN [mapClaims |-> NoClaims, httpStatus |-> StatusBadRequest,
              err |-> ErrNoAuthorizationHeader]
        ELSE VerifyJWT(SubSeq(h, Len(BearerPrefix) + 1, Len(h)))

\* The structural decode of a claim mapping into a claims struct: a
\* recognized claim is copied, a missing one leaves the zero value, a claim
\* of the wrong JSON type fails the decode.
Bind(mapClaims, fields) ==
    LET bad == \E i \in 1..Len(fields) :
                   /\ fields[i].key \in DOMAIN mapClaims
                   /\ mapClaims[fields[i].key].t # fields[i].t
        fieldOf(name) == CHOOSE i \in 1..Len(fields) : fields[i].field = name
        value(f) == IF f.key \in DOMAIN mapClaims THEN mapClaims[f.key].v
                    ELSE IF f.t = "string" THEN "" ELSE 0
    IN  IF bad
        THEN [err |-> [kind |-> "errorString", text |-> "cannot unmarshal claims"],
              claims |-> [n \in {} |-> ""]]
        ELSE [err |-> NoError,
              claims |-> [n \in {fields[i].field : i \in 1..Len(fields)} |->
                             value(fields[fieldOf(n)])]]

ExtractStandard(mapClaims) == Bind(mapClaims, StandardFields)
ExtractCustom(mapClaims) == Bind(mapClaims, ExpandedFields)

-----------------------------------------------------------------------------
(* Package lmw: the middleware.  A middleware's code before its call of    *)
(* next is an operator that yields either the context next is called with  *)
(* or the response the middleware returns without calling next.            *)

CallNext(ctx) == [callNext |-> TRUE, ctx |-> ctx, ret |-> NoOut]
ShortCircuit(ret) == [callNext |-> FALSE, ctx |-> EmptyMap, ret |-> ret]

\* context.WithValue for each binding of vals, on a context held as the
\* function from its bound keys to the values ctx.Value finds.
WithValues(ctx, vals) ==
    [k \in DOMAIN ctx \cup DOMAIN vals |-> IF k \in DOMAIN vals THEN vals[k] ELSE ctx[k]]

\* addToContext (part_000): a nil value and an empty string are not bound.
\* vals maps each key to its value tagged with its Go type.
addToContext(ctx, vals) ==
    WithValues(ctx,
        [k \in {x \in DOMAIN vals : ~(vals[x].t = "string" /\ vals[x].v = "")} |->
            vals[k].v])

\* The nine values InjectLambdaContextMW derives from the request.
LambdaValues(r, lambdaParams) ==
    (LambdaContextIDKey :> Str(GetID(lambdaParams)))
    @@ (LambdaContextMethodKey :> Str(r.HTTPMethod))
    @@ (LambdaContextMultiParamsKey :> [t |-> "map", v |-> r.MultiValueQueryStringParameters])
    @@ (LambdaContextPathKey :> Str(r.Path))
    @@ (LambdaContextPathParamsKey :> [t |-> "map", v |-> r.PathParameters])
    @@ (LambdaContextQueryParamsKey :> [t |-> "map", v |-> r.QueryStringParameters])
    @@ (LambdaContextRequestIDKey :> Str(r.RequestID))
    @@ (LambdaContextUserIDKey :> Str(GetUserID(lambdaParams)))
    @@ (LambdaContextUserTypeKey :> Str(GetUserType(lambdaParams)))

\* InjectLambdaContextMW of lmw/lmw.go, up to its call of next.
InjectLambdaContextMW(ctx, r) ==
    LET u == UnmarshalReq(r)
        vals == LambdaValues(r, u.params)
    IN  IF u.err.kind # "nil" THEN ShortCircuit(Error(u.err))
        ELSE CallNext(WithValues(ctx, [k \in DOMAIN vals |-> vals[k].v]))

\* A variant that derives the values and hands next the context it was given.
InjectLambdaContextMW_part000_staleCtx(ctx, r) == CallNext(ctx)

\* InjectLambdaContextMW of part_000, up to its call of next.
InjectLambdaContextMW_part000(ctx, r) ==
    LET u == UnmarshalReq(r)
    IN  CallNext(addToContext(ctx, LambdaValues(r, u.params)))

\* A variant that rejects a request whose Authorization header does not verify.
AllowOptionsMW_checksAuthorization(ctx, r) ==
    LET x == ExtractJWT(r.Headers)
    IN  IF "Authorization" \in DOMAIN r.Headers.m /\ x.err.kind # "nil"
        THEN StatusAndError(x.httpStatus, x.err)
        ELSE Empty

\* A variant that answers only the OPTIONS method.
AllowOptionsMW_optionsOnly(ctx, r) ==
    IF r.HTTPMethod = "OPTIONS" THEN Empty
    ELSE StatusAndError(StatusBadRequest, [kind |-> "errorString", text |-> "not OPTIONS"])

\* AllowOptionsMW(): a handler, it wraps no next.
AllowOptionsMW(ctx, r) == Empty

\* A variant that answers every extraction failure with status 500.
DecodeStandardMW_serverError(ctx, r) ==
    LET x == ExtractJWT(r.Headers)
        b == ExtractStandard(x.mapClaims)
    IN  IF x.err.kind # "nil"
        THEN ShortCircuit(StatusAndError(StatusInternalServerError, x.err))
        ELSE IF b.err.kind # "nil"
        THEN ShortCircuit(StatusAndError(StatusInternalServerError, b.err))
        ELSE CallNext(WithValues(ctx,
                (JWTClaimAudienceKey :> b.claims["Audience"])
                @@ (JWTClaimExpiresAtKey :> b.claims["ExpiresAt"])
                @@ (JWTClaimIDKey :> b.claims["Id"])
                @@ (JWTClaimIssuedAtKey :> b.claims["IssuedAt"])
                @@ (JWTClaimIssuerKey :> b.claims["Issuer"])
                @@ (JWTClaimNotBeforeKey :> b.claims["NotBefore"])
                @@ (JWTClaimSubjectKey :> b.claims["Subject"])))

DecodeStandardMW(ctx, r) ==
    LET x == ExtractJWT(r.Headers)
        b == ExtractStandard(x.mapClaims)
    IN  IF x.err.kind # "nil" THEN ShortCircuit(StatusAndError(x.httpStatus, x.err))
        ELSE IF b.err.kind # "nil"
        THEN ShortCircuit(StatusAndError(StatusInternalServerError, b.err))
        ELSE CallNext(WithValues(ctx,
                (JWTClaimAudienceKey :> b.claims["Audience"])
                @@ (JWTClaimExpiresAtKey :> b.claims["ExpiresAt"])
                @@ (JWTClaimIDKey :> b.claims["Id"])
                @@ (JWTClaimIssuedAtKey :> b.claims["IssuedAt"])
                @@ (JWTClaimIssuerKey :> b.claims["Issuer"])
                @@ (JWTClaimNotBeforeKey :> b.claims["NotBefore"])
                @@ (JWTClaimSubjectKey :> b.claims["Subject"])))

\* A variant that binds the first name and the full name under each other's key.
DecodeExpandedMW_swappedNames(ctx, r) ==
    LET x == ExtractJWT(r.Headers)
        b == ExtractCustom(x.mapClaims)
    IN  IF x.err.kind # "nil" THEN ShortCircuit(StatusAndError(x.httpStatus, x.err))
        ELSE IF b.err.kind # "nil"
        THEN ShortCircuit(StatusAndError(StatusInternalServerError, b.err))
        ELSE CallNext(WithValues(ctx,
                (JWTClaimAudienceKey :> b.claims["Audience"])
                @@ (JWTClaimEmailKey :> b.claims["Email"])
                @@ (JWTClaimExpiresAtKey :> b.claims["ExpiresAt"])
                @@ (JWTClaimFirstNameKey :> b.claims["FullName"])
                @@ (JWTClaimFullNameKey :> b.claims["FirstName"])
                @@ (JWTClaimIDKey :> b.claims["ID"])
                @@ (JWTClaimIssuedAtKey :> b.claims["IssuedAt"])
                @@ (JWTClaimIssuerKey :> b.claims["Issuer"])
                @@ (JWTClaimLevelKey :> b.claims["Level"])
                @@ (JWTClaimNotBeforeKey :> b.claims["NotBefore"])
                @@ (JWTClaimSubjectKey :> b.claims["Subject"])
                @@ (JWTClaimUserTypeKey :> b.claims["UserType"])))

\* A variant that hands a claim-binding failure back as a Go error.
DecodeExpandedMW_propagatesFault(ctx, r) ==
    LET x == ExtractJWT(r.Headers)
        b == ExtractCustom(x.mapClaims)
    IN  IF x.err.kind # "nil" THEN ShortCircuit(StatusAndError(x.httpStatus, x.err))
        ELSE IF b.err.kind # "nil"
        THEN ShortCircuit([StatusAndError(StatusInternalServerError, b.err)
                              EXCEPT !.err = b.err])
        ELSE CallNext(WithValues(ctx,
                (JWTClaimAudienceKey :> b.claims["Audience"])
                @@ (JWTClaimEmailKey :> b.claims["Email"])
                @@ (JWTClaimExpiresAtKey :> b.claims["ExpiresAt"])
                @@ (JWTClaimFirstNameKey :> b.claims["FirstName"])
                @@ (JWTClaimFullNameKey :> b.claims["FullName"])
                @@ (JWTClaimIDKey :> b.claims["ID"])
                @@ (JWTClaimIssuedAtKey :> b.claims["IssuedAt"])
                @@ (JWTClaimIssuerKey :> b.claims["Issuer"])
                @@ (JWTClaimLevelKey :> b.claims["Level"])
                @@ (JWTClaimNotBeforeKey :> b.claims["NotBefore"])
                @@ (JWTClaimSubjectKey :> b.claims["Subject"])
                @@ (JWTClaimUserTypeKey :> b.claims["UserType"])))

DecodeExpandedMW(ctx, r) ==
    LET x == ExtractJWT(r.Headers)
        b == ExtractCustom(x.mapClaims)
    IN  IF x.err.kind # "nil" THEN ShortCircuit(StatusAndError(x.httpStatus, x.err))
        ELSE IF b.err.kind # "nil"
        THEN ShortCircuit(StatusAndError(StatusInternalServerError, b.err))
        ELSE CallNext(WithValues(ctx,
                (JWTClaimAudienceKey :> b.claims["Audience"])
                @@ (JWTClaimEmailKey :> b.claims["Email"])
                @@ (JWTClaimExpiresAtKey :> b.claims["ExpiresAt"])
                @@ (JWTClaimFirstNameKey :> b.claims["FirstName"])
                @@ (JWTClaimFullNameKey :> b.claims["FullName"])
                @@ (JWTClaimIDKey :> b.claims["ID"])
                @@ (JWTClaimIssuedAtKey :> b.claims["IssuedAt"])
                @@ (JWTClaimIssuerKey :> b.claims["Issuer"])
                @@ (JWTClaimLevelKey :> b.claims["Level"])
                @@ (JWTClaimNotBeforeKey :> b.claims["NotBefore"])
                @@ (JWTClaimSubjectKey :> b.claims["Subject"])
                @@ (JWTClaimUserTypeKey :> b.claims["UserType"])))

\* return next(ctx, req): what next returned is returned as it is.
ReturnNext(ret) == ret

(* Logging.  A log record is [level, msg, fields, nulls, ints, raw]: the   *)
(* context values logged, the keys logged as null, the integer fields and  *)
(* the raw JSON attached under raw.key ("" for none).                      *)

LogKeys ==
    {LambdaContextIDKey, LambdaContextMethodKey, LambdaContextMultiParamsKey,
     LambdaContextPathKey, LambdaContextPathParamsKey, LambdaContextQueryParamsKey,
     LambdaContextRequestIDKey, LambdaContextUserIDKey, LambdaContextUserTypeKey}

NoRaw == [key |-> "", json |-> ""]

\* The text of a string as json.Marshal writes it between the quotes.
RECURSIVE JSONEscape(_)
JSONEscape(s) ==
    IF Len(s) = 0 THEN ""
    ELSE LET c == SubSeq(s, 1, 1)
         IN  (IF c = "\"" THEN "\\\"" ELSE IF c = "\\" THEN "\\\\" ELSE c)
             \o JSONEscape(SubSeq(s, 2, Len(s)))

JSONString(s) == "\"" \o JSONEscape(s) \o "\""

\* The header names of the model in the order json.Marshal writes map keys.
HeaderOrder ==
    <<CORSHeadersHeaderKey, CORSMethodsHeaderKey, CORSOriginHeaderKey, ContentTypeKey, "key">>

RECURSIVE MarshalHeaderEntries(_, _, _)
MarshalHeaderEntries(h, i, first) ==
    IF i > Len(HeaderOrder) THEN ""
    ELSE IF HeaderOrder[i] \in DOMAIN h
    THEN (IF first THEN "" ELSE ",") \o JSONString(HeaderOrder[i]) \o ":"
         \o JSONString(h[HeaderOrder[i]]) \o MarshalHeaderEntries(h, i + 1, FALSE)
    ELSE MarshalHeaderEntries(h, i + 1, first)

\* json.Marshal of an events.APIGatewayProxyResponse.
MarshalResponse(r) ==
    "{\"statusCode\":" \o ToString(r.StatusCode)
    \o ",\"headers\":"
    \o (IF DOMAIN r.Headers = {} THEN "null"
        ELSE "{" \o MarshalHeaderEntries(r.Headers, 1, TRUE) \o "}")
    \o ",\"multiValueHeaders\":null,\"body\":" \o JSONString(r.Body)
    \o (IF r.IsBase64Encoded THEN ",\"isBase64Encoded\":true" ELSE "")
    \o "}"

\* LogRequestMW of lmw/lmw.go, from the return of next on.
LogRequestMW(ctx, r, ret) ==
    LET failed == ret.err.kind # "nil"
        code == IF failed THEN StatusInternalServerError ELSE ret.res.StatusCode
        level == IF failed \/ code >= 400 THEN "ERR" ELSE "INF"
        extra == IF failed THEN " " \o ErrorText(ret.err) ELSE ""
        errorEvent == [level |-> "error", msg |-> "error encountered",
                       fields |-> [k \in LogKeys \cap DOMAIN ctx |-> ctx[k]],
                       nulls |-> LogKeys \ DOMAIN ctx,
                       ints |-> [k \in {} |-> 0],
                       raw |-> [key |-> "res", json |-> MarshalResponse(ret.res)]]
        line == [level |-> "debug",
                 msg |-> "[" \o level \o "] [" \o r.HTTPMethod \o " " \o r.Path
                         \o "] [" \o ToString(code) \o "]" \o extra,
                 fields |-> EmptyMap, nulls |-> {}, ints |-> [k \in {} |-> 0],
                 raw |-> NoRaw]
    IN  [ret |-> ret,
         logs |-> IF code > 399 THEN <<errorEvent, line>> ELSE <<line>>]

\* logContextValues (part_000): one event.
logContextValues(ctx, res, ctxVals) ==
    [level |-> IF res.StatusCode > 399 THEN "error" ELSE "info",
     msg |-> "request finished",
     fields |-> [k \in ctxVals \cap DOMAIN ctx |-> ctx[k]],
     nulls |-> {},
     ints |-> ("statusCode" :> res.StatusCode),
     raw |-> IF res.StatusCode > 399
             THEN [key |-> "body", json |-> JSONString(res.Body)] ELSE NoRaw]

\* LogRequestMW of part_000, from the return of next on.
LogRequestMW_part000(ctx, r, ret) ==
    LET res == IF ret.err.kind # "nil"
               THEN [ret.res EXCEPT !.StatusCode = StatusInternalServerError]
               ELSE ret.res
    IN  [ret |-> [res |-> res, err |-> ret.err],
         logs |-> <<logContextValues(ctx, res, LogKeys)>>]

(* Handlers of lmw_test.go *)

\* mockHandler(response, err)
mockHandler(response, err) == [res |-> response, err |-> err]

\* json.Marshal of an ljwt.ExpandedClaims read back from the context.
RECURSIVE MarshalClaims(_, _, _)
MarshalClaims(ctx, fields, i) ==
    IF i > Len(fields) THEN ""
    ELSE (IF i = 1 THEN "" ELSE ",") \o JSONString(fields[i].key) \o ":"
         \o (IF fields[i].t = "string" THEN JSONString(ctx[fields[i].key])
             ELSE ToString(ctx[fields[i].key]))
         \o MarshalClaims(ctx, fields, i + 1)

\* GenerateSuccessHandlerAndMapExpandedContext: the twelve context values,
\* read with their type asserted, returned as the response body.
MapExpandedContext(ctx, r) ==
    LET c == Custom(StatusOK, NilMap, [kind |-> "struct{}"])
    IN  [c EXCEPT !.res.Body = "{" \o MarshalClaims(ctx, ExpandedFields, 1) \o "}"]

-----------------------------------------------------------------------------
(* The requests, chains and handlers the pipeline is driven with *)

MaxChain == 2

Methods == {"GET", "OPTIONS"}

Tokens ==
    {"tok.expanded", "tok.standard", "tok.partial", "tok.badshape", "tok.keyfail",
     "tok.tampered"}

\* No headers at all, a header of another scheme, and a bearer header per token.
AuthHeaders ==
    {NilMap, MakeMap("Authorization" :> "Basic dXNlcg==")}
    \cup {MakeMap("Authorization" :> BearerPrefix \o t) : t \in Tokens}

\* The rest of a request: fully populated, empty, and with a truncated body.
RequestShapes ==
    {[Path |-> "/hi/there",
      PathParameters |-> MakeMap(("id" :> "1") @@ ("pathKey" :> "pathVal")),
      QueryStringParameters |-> MakeMap(("id" :> "22") @@ ("qspKey" :> "qspVal")),
      MultiValueQueryStringParameters |->
          MakeMap("mvqspKey" :> <<"mvqspVal1", "mvqspVal2">>),
      RequestID |-> "req-1",
      Body |-> ValidBody],
     [Path |-> "",
      PathParameters |-> NilMap,
      QueryStringParameters |-> NilMap,
      MultiValueQueryStringParameters |-> NilMap,
      RequestID |-> "",
      Body |-> ""],
     [Path |-> "/hi/there",
      PathParameters |-> MakeMap("userType" :> "staff"),
      QueryStringParameters |-> NilMap,
      MultiValueQueryStringParameters |-> NilMap,
      RequestID |-> "req-2",
      Body |-> "{"]}

Requests ==
    {[HTTPMethod |-> m, Headers |-> a, Path |-> s.Path,
      PathParameters |-> s.PathParameters,
      QueryStringParameters |-> s.QueryStringParameters,
      MultiValueQueryStringParameters |-> s.MultiValueQueryStringParameters,
      RequestID |-> s.RequestID, Body |-> s.Body] :
        m \in Methods, a \in AuthHeaders, s \in RequestShapes}

Middleware ==
    {"LogRequestMW", "InjectLambdaContextMW", "DecodeStandardMW", "DecodeExpandedMW"}

\* Chains of up to MaxChain middleware, none used twice.
Chains ==
    {c \in UNION {[1..n -> Middleware] : n \in 0..MaxChain} :
        \A i, j \in DOMAIN c : c[i] = c[j] => i = j}

MockResponse(s) ==
    [StatusCode |-> s, IsBase64Encoded |-> FALSE, Headers |-> EmptyMap, Body |-> ""]

MockErrors == {NoError, [kind |-> "errorString", text |-> "boom"]}

Handlers ==
    {[kind |-> "AllowOptionsMW"], [kind |-> "MapExpandedContext"]}
    \cup {[kind |-> "mockHandler", response |-> MockResponse(s), err |-> e] :
            s \in {200, 400}, e \in MockErrors}

Builds == {"lmw.go", "part_000"}

NoReq ==
    [HTTPMethod |-> "", Headers |-> NilMap, Path |-> "", PathParameters |-> NilMap,
     QueryStringParameters |-> NilMap, MultiValueQueryStringParameters |-> NilMap,
     RequestID |-> "", Body |-> ""]
NoHandler == [kind |-> "none"]

-----------------------------------------------------------------------------
(* The pipeline: one request at a time runs down the chain to the handler  *)
(* and back.  Stage k <= Len(chain) is chain[k]; stage Len(chain) + 1 is   *)
(* the handler.                                                            *)

Idle == ctxs = <<>>
Descending == ctxs # <<>> /\ retStack = <<>>
Ascending == retStack # <<>> /\ Len(retStack) < Len(ctxs)
Done == ctxs # <<>> /\ Len(retStack) = Len(ctxs)

\* The stage about to run (Descending), and the stage next returns to (Ascending).
Cur == Len(ctxs)
Ret == Len(ctxs) - Len(retStack)

StageName(k) == IF k <= Len(chain) THEN chain[k] ELSE handler.kind

\* What stage k returned, once it has.
RetOf(k) == retStack[Len(ctxs) - k + 1]
Returned(k) == k >= 1 /\ k <= Len(ctxs) /\ Len(ctxs) - k + 1 <= Len(retStack)

Enter(k) == [ev |-> "enter", stage |-> k, name |-> StageName(k)]
Leave(k) == [ev |-> "return", stage |-> k, name |-> StageName(k)]
Log(k, rec) == [ev |-> "log", stage |-> k, name |-> StageName(k), rec |-> rec]

\* The router hands a request to a wrapped handler, with a fresh context.
NewRequest ==
    /\ Idle
    /\ \E b \in Builds, r \in Requests, c \in Chains, h \in Handlers :
          /\ h.kind = "MapExpandedContext" =>
                \E i \in DOMAIN c : c[i] = "DecodeExpandedMW"
          /\ build' = b
          /\ req' = r
          /\ chain' = c
          /\ handler' = h
    /\ ctxs' = <<EmptyMap>>
    /\ retStack' = <<>>
    /\ trace' = <<>>
    /\ UNCHANGED <<cfgVars, resVars, paramVars, httpVars, concVars, heapVars>>

\* A middleware runs up to its call of next, or to its early return.
RunStage(step) ==
    /\ trace' = trace \o <<Enter(Cur)>> \o (IF step.callNext THEN <<>> ELSE <<Leave(Cur)>>)
    /\ ctxs' = IF step.callNext THEN Append(ctxs, step.ctx) ELSE ctxs
    /\ retStack' = IF step.callNext THEN retStack ELSE <<step.ret>>
    /\ UNCHANGED <<build, req, chain, handler, cfgVars, resVars, paramVars, httpVars, concVars, heapVars>>

\* A stage returns ret to its caller, having emitted logs.
ReturnStage(ret, logs) ==
    /\ trace' = trace \o [i \in 1..Len(logs) |-> Log(Ret, logs[i])] \o <<Leave(Ret)>>
    /\ retStack' = Append(retStack, ret)
    /\ UNCHANGED <<build, req, chain, handler, ctxs, cfgVars, resVars, paramVars, httpVars, concVars, heapVars>>

\* LogRequestMW calls next at once, with the context it was given.
LogRequestMWCall ==
    /\ Descending /\ Cur <= Len(chain) /\ chain[Cur] = "LogRequestMW"
    /\ RunStage(CallNext(ctxs[Cur]))

LogRequestMWReturn ==
    /\ Ascending /\ chain[Ret] = "LogRequestMW"
    /\ LET r == IF build = "lmw.go"
                THEN LogRequestMW(ctxs[Ret], req, retStack[Len(retStack)])
                ELSE LogRequestMW_part000(ctxs[Ret], req, retStack[Len(retStack)])
       IN  ReturnStage(r.ret, r.logs)

InjectLambdaContextMWCall ==
    /\ Descending /\ Cur <= Len(chain) /\ chain[Cur] = "InjectLambdaContextMW"
    /\ RunStage(IF build = "lmw.go"
                THEN InjectLambdaContextMW(ctxs[Cur], req)
                ELSE InjectLambdaContextMW_part000(ctxs[Cur], req))

DecodeStandardMWCall ==
    /\ Descending /\ Cur <= Len(chain) /\ chain[Cur] = "DecodeStandardMW"
    /\ RunStage(DecodeStandardMW(ctxs[Cur], req))

DecodeExpandedMWCall ==
    /\ Descending /\ Cur <= Len(chain) /\ chain[Cur] = "DecodeExpandedMW"
    /\ RunStage(DecodeExpandedMW(ctxs[Cur], req))

\* InjectLambdaContextMW and the decode middleware end in "return next(ctx, req)".
ReturnFromNext ==
    /\ Ascending
    /\ chain[Ret] \in {"InjectLambdaContextMW", "DecodeStandardMW", "DecodeExpandedMW"}
    /\ ReturnStage(ReturnNext(retStack[Len(retStack)]), <<>>)

\* The terminal handler runs.
RunHandler ==
    /\ Descending /\ Cur = Len(chain) + 1
    /\ RunStage(ShortCircuit(
          CASE handler.kind = "AllowOptionsMW" -> AllowOptionsMW(ctxs[Cur], req)
            [] handler.kind = "MapExpandedContext" -> MapExpandedContext(ctxs[Cur], req)
            [] handler.kind = "mockHandler" -> mockHandler(handler.response, handler.err)))

\* The response leaves the pipeline.
Respond ==
    /\ Done
    /\ build' = "lmw.go" /\ req' = NoReq /\ chain' = <<>> /\ handler' = NoHandler
    /\ ctxs' = <<>> /\ retStack' = <<>> /\ trace' = <<>>
    /\ UNCHANGED <<cfgVars, resVars, paramVars, httpVars, concVars, heapVars>>

-----------------------------------------------------------------------------
(* Two requests in the pipeline at once.  A wrapped handler is a chain of  *)
(* closures; every invocation has its own ctx, req, res and err, and       *)
(* nothing but the chain and the process-wide configuration is shared.     *)
(* The first request is held in req, ctxs, retStack and trace and runs by  *)
(* the actions above; the second is held in peer.                          *)

\* The middleware named name, invoked with (ctx, r), up to its call of next.
StageCall(b, name, ctx, r) ==
    CASE name = "LogRequestMW" -> CallNext(ctx)
      [] name = "InjectLambdaContextMW" ->
            IF b = "lmw.go" THEN InjectLambdaContextMW(ctx, r)
            ELSE InjectLambdaContextMW_part000(ctx, r)
      [] name = "DecodeStandardMW" -> DecodeStandardMW(ctx, r)
      [] name = "DecodeExpandedMW" -> DecodeExpandedMW(ctx, r)

\* The same middleware from the return of next on: [ret, logs].
StageReturn(b, name, ctx, r, ret) ==
    IF name = "LogRequestMW"
    THEN IF b = "lmw.go" THEN LogRequestMW(ctx, r, ret) ELSE LogRequestMW_part000(ctx, r, ret)
    ELSE [ret |-> ReturnNext(ret), logs |-> <<>>]

\* The terminal handler h invoked with (ctx, r).
HandlerCall(h, ctx, r) ==
    CASE h.kind = "AllowOptionsMW" -> AllowOptionsMW(ctx, r)
      [] h.kind = "MapExpandedContext" -> MapExpandedContext(ctx, r)
      [] h.kind = "mockHandler" -> mockHandler(h.response, h.err)

NoPeer == [req |-> NoReq, ctxs |-> <<>>, retStack |-> <<>>, trace |-> <<>>]

\* Requests that differ in their token and in their event.
ConcRequests ==
    {r \in Requests :
        /\ r.HTTPMethod = "GET"
        /\ r.Headers \in {NilMap} \cup {MakeMap("Authorization" :> BearerPrefix \o t) :
                                          t \in {"tok.expanded", "tok.badshape"}}
        /\ r.RequestID # ""}

ConcChains ==
    {<<"InjectLambdaContextMW", "DecodeExpandedMW">>,
     <<"LogRequestMW", "InjectLambdaContextMW">>,
     <<"DecodeStandardMW", "LogRequestMW">>}

ConcHandlers ==
    {[kind |-> "MapExpandedContext"],
     [kind |-> "mockHandler", response |-> MockResponse(200), err |-> NoError],
     [kind |-> "mockHandler", response |-> MockResponse(400),
      err |-> [kind |-> "errorString", text |-> "boom"]]}

\* The router hands two requests to the same wrapped handler.
ConcStart ==
    /\ Idle /\ peer = NoPeer
    /\ \E b \in Builds, c \in ConcChains, h \in ConcHandlers, r1, r2 \in ConcRequests :
          /\ h.kind = "MapExpandedContext" =>
                \E i \in DOMAIN c : c[i] = "DecodeExpandedMW"
          /\ build' = b /\ chain' = c /\ handler' = h
          /\ req' = r1
          /\ peer' = [req |-> r2, ctxs |-> <<EmptyMap>>, retStack |-> <<>>, trace |-> <<>>]
    /\ ctxs' = <<EmptyMap>> /\ retStack' = <<>> /\ trace' = <<>>
    /\ UNCHANGED <<cfgVars, resVars, paramVars, httpVars, heapVars>>

\* A variant in which a middleware of the second request is handed the
\* context the first request holds at that stage.
PeerCall_sharedContext ==
    /\ peer.ctxs # <<>> /\ peer.retStack = <<>> /\ Len(peer.ctxs) <= Len(chain)
    /\ LET k == Len(peer.ctxs)
           ctx == IF k <= Len(ctxs) THEN ctxs[k] ELSE peer.ctxs[k]
           step == StageCall(build, chain[k], ctx, peer.req)
       IN  peer' = [peer EXCEPT
                      !.trace = @ \o <<Enter(k)>>
                                  \o (IF step.callNext THEN <<>> ELSE <<Leave(k)>>),
                      !.ctxs = IF step.callNext THEN Append(@, step.ctx) ELSE @,
                      !.retStack = IF step.callNext THEN @ ELSE <<step.ret>>]
    /\ UNCHANGED <<cfgVars, resVars, mwVars, paramVars, httpVars, heapVars>>

\* A middleware of the second request runs up to its call of next, or to
\* its early return.
PeerCall ==
    /\ peer.ctxs # <<>> /\ peer.retStack = <<>> /\ Len(peer.ctxs) <= Len(chain)
    /\ LET k == Len(peer.ctxs)
           step == StageCall(build, chain[k], peer.ctxs[k], peer.req)
       IN  peer' = [peer EXCEPT
                      !.trace = @ \o <<Enter(k)>>
                                  \o (IF step.callNext THEN <<>> ELSE <<Leave(k)>>),
                      !.ctxs = IF step.callNext THEN Append(@, step.ctx) ELSE @,
                      !.retStack = IF step.callNext THEN @ ELSE <<step.ret>>]
    /\ UNCHANGED <<cfgVars, resVars, mwVars, paramVars, httpVars, heapVars>>

\* The terminal handler runs for the second request.
PeerHandler ==
    /\ peer.ctxs # <<>> /\ peer.retStack = <<>> /\ Len(peer.ctxs) = Len(chain) + 1
    /\ LET k == Len(peer.ctxs)
       IN  peer' = [peer EXCEPT
                      !.trace = @ \o <<Enter(k), Leave(k)>>,
                      !.retStack = <<HandlerCall(handler, peer.ctxs[k], peer.req)>>]
    /\ UNCHANGED <<cfgVars, resVars, mwVars, paramVars, httpVars, heapVars>>

\* next has returned to a middleware of the second request, which returns.
PeerReturn ==
    /\ peer.retStack # <<>> /\ Len(peer.retStack) < Len(peer.ctxs)
    /\ LET k == Len(peer.ctxs) - Len(peer.retStack)
           r == StageReturn(build, chain[k], peer.ctxs[k], peer.req,
                            peer.retStack[Len(peer.retStack)])
       IN  peer' = [peer EXCEPT
                      !.trace = @ \o [i \in 1..Len(r.logs) |-> Log(k, r.logs[i])]
                                  \o <<Leave(k)>>,
                      !.retStack = Append(@, r.ret)]
    /\ UNCHANGED <<cfgVars, resVars, mwVars, paramVars, httpVars, heapVars>>

\* Both responses have left the pipeline.
ConcRespond ==
    /\ Done
    /\ peer.ctxs # <<>> /\ Len(peer.retStack) = Len(peer.ctxs)
    /\ build' = "lmw.go" /\ req' = NoReq /\ chain' = <<>> /\ handler' = NoHandler
    /\ ctxs' = <<>> /\ retStack' = <<>> /\ trace' = <<>>
    /\ peer' = NoPeer
    /\ UNCHANGED <<cfgVars, resVars, paramVars, httpVars, heapVars>>

-----------------------------------------------------------------------------

(* Package lambda_router: the Transport Adapter, Router.ServeHTTP.  An     *)
(* http.Header or url.Values is a function from its keys to the sequence   *)
(* of each key's values; header names are in canonical form.  The bytes    *)
(* written to the transport are held as a string.                          *)

\* A variant that keeps the first value of every key that has values.
convertMap_firstValue(in) == [k \in {x \in DOMAIN in : Len(in[x]) >= 1} |-> in[k][1]]

convertMap(in) == [k \in {x \in DOMAIN in : Len(in[x]) = 1} |-> in[k][1]]

\* http.Header: Get is the first value of the key, "" when it has none.
HeaderGet(h, key) == IF key \in DOMAIN h /\ Len(h[key]) > 0 THEN h[key][1] ELSE ""
HeaderSet(h, key, value) == MapSet(h, key, <<value>>)
HeaderAdd(h, key, value) ==
    MapSet(h, key, (IF key \in DOMAIN h THEN h[key] ELSE <<>>) \o <<value>>)

\* strings.HasPrefix
HasPrefix(s, prefix) == Len(s) >= Len(prefix) /\ SubSeq(s, 1, Len(prefix)) = prefix

\* base64.StdEncoding.DecodeString: [ok, bytes].  Quadruples of symbols,
\* "=" padding in the last one only.
RECURSIVE DecodeString(_)
DecodeString(s) ==
    LET failed == [ok |-> FALSE, bytes |-> ""]
        isSym(c) == \E n \in 0..63 : B64Sym(n) = c
        val(c) == IF c = "=" THEN 0 ELSE CHOOSE n \in 0..63 : B64Sym(n) = c
        chr(n) == CHOOSE c \in {"h", "i", "v", ","} : Ord(c) = n
    IN  IF s = "" THEN [ok |-> TRUE, bytes |-> ""]
        ELSE IF Len(s) < 4 THEN failed
        ELSE LET c1 == SubSeq(s, 1, 1)
                 c2 == SubSeq(s, 2, 2)
                 c3 == SubSeq(s, 3, 3)
                 c4 == SubSeq(s, 4, 4)
                 pad == IF c3 = "=" /\ c4 = "=" THEN 2 ELSE IF c4 = "=" THEN 1 ELSE 0
                 rest == DecodeString(SubSeq(s, 5, Len(s)))
                 b1 == val(c1) * 4 + val(c2) \div 16
                 b2 == (val(c2) % 16) * 16 + val(c3) \div 4
                 b3 == (val(c3) % 4) * 64 + val(c4)
             IN  IF ~(isSym(c1) /\ isSym(c2)) THEN failed
                 ELSE IF pad = 0 /\ ~(isSym(c3) /\ isSym(c4)) THEN failed
                 ELSE IF pad = 1 /\ ~isSym(c3) THEN failed
                 ELSE IF pad > 0 /\ Len(s) > 4 THEN failed
                 ELSE IF ~rest.ok THEN failed
                 ELSE [ok |-> TRUE,
                       bytes |-> chr(b1) \o (IF pad < 2 THEN chr(b2) ELSE "")
                                 \o (IF pad = 0 THEN chr(b3) ELSE "") \o rest.bytes]

\* A variant that sets no CORS header on the transport.
SetCORSHeaders_none(h) == h

\* ServeHTTP, lines 34-48: each CORS variable that is set is written to the
\* transport's headers before anything else happens.
SetCORSHeaders(h) ==
    LET h1 == IF Getenv(CORSHeadersEnvKey) # ""
              THEN HeaderSet(h, CORSHeadersHeaderKey, Getenv(CORSHeadersEnvKey)) ELSE h
        h2 == IF Getenv(CORSMethodsEnvKey) # ""
              THEN HeaderSet(h1, CORSMethodsHeaderKey, Getenv(CORSMethodsEnvKey)) ELSE h1
    IN  IF Getenv(CORSOriginEnvKey) # ""
        THEN HeaderSet(h2, CORSOriginHeaderKey, Getenv(CORSOriginEnvKey)) ELSE h2

\* The three failure paths: Content-Type, WriteHeader(500) and the body
\* json.NewEncoder(w).Encode writes, a JSON object and a newline.
WriteFailure(h, text) ==
    [header |-> HeaderSet(h, ContentTypeKey, JSONContentType),
     status |-> 500,
     body |-> "{\"error\":" \o JSONString(text) \o "}\n"]

\* A variant that never encodes the body.
NewEvent_rawBody(r) ==
    [Body |-> r.Body,
     HTTPMethod |-> r.Method,
     Headers |-> MakeMap(convertMap(r.Header)),
     IsBase64Encoded |-> FALSE,
     MultiValueHeaders |-> r.Header,
     MultiValueQueryStringParameters |-> r.Query,
     Path |-> r.Path,
     QueryStringParameters |-> MakeMap(convertMap(r.Query))]

\* The event ServeHTTP builds from the request once its body is read.
NewEvent(r) ==
    LET multipart == HasPrefix(HeaderGet(r.Header, ContentTypeKey),
                               "multipart/form-data; boundary")
    IN  [Body |-> IF multipart THEN EncodeToString(r.Body) ELSE r.Body,
         HTTPMethod |-> r.Method,
         Headers |-> MakeMap(convertMap(r.Header)),
         IsBase64Encoded |-> multipart,
         MultiValueHeaders |-> r.Header,
         MultiValueQueryStringParameters |-> r.Query,
         Path |-> r.Path,
         QueryStringParameters |-> MakeMap(convertMap(r.Query))]

\* A variant that writes every body as it is.
ResponseBody_verbatim(res) == [ok |-> TRUE, bytes |-> res.Body]

\* resBody of ServeHTTP: the decoded body of a response flagged as base64.
ResponseBody(res) ==
    IF res.IsBase64Encoded THEN DecodeString(res.Body)
    ELSE [ok |-> TRUE, bytes |-> res.Body]

\* The loop over res.MultiValueHeaders: Set for the first value of a name,
\* Add for the ones after it.  The names are distinct, so the order in which
\* the map is ranged over does not show.
RECURSIVE WriteValues(_, _, _, _)
WriteValues(h, header, values, i) ==
    IF i > Len(values) THEN h
    ELSE WriteValues(IF i = 1 THEN HeaderSet(h, header, values[i])
                     ELSE HeaderAdd(h, header, values[i]),
                     header, values, i + 1)

RECURSIVE WriteMultiValueHeaders(_, _)
WriteMultiValueHeaders(h, mvh) ==
    IF DOMAIN mvh = {} THEN h
    ELSE LET header == CHOOSE x \in DOMAIN mvh : TRUE
         IN  WriteMultiValueHeaders(WriteValues(h, header, mvh[header], 1),
                                    [x \in DOMAIN mvh \ {header} |-> mvh[x]])

\* The loop over res.Headers: a header is set when Get finds "" under its name.
WriteSingleValueHeaders(h, headers) ==
    [x \in DOMAIN h \cup {k \in DOMAIN headers : HeaderGet(h, k) = ""} |->
        IF x \in DOMAIN headers /\ HeaderGet(h, x) = "" THEN <<headers[x]>> ELSE h[x]]

\* ServeHTTP(w, r) with a handler that returns ret when it is invoked:
\* the event built, whether the handler was invoked, and w afterwards.
ServeHTTP(r, ret) ==
    LET h0 == SetCORSHeaders(EmptyMap)
        resBody == ResponseBody(ret.res)
    IN  IF r.readErr # NoError
        THEN [invoked |-> FALSE, event |-> NewEvent(r),
              w |-> WriteFailure(h0, "Failed reading req body: " \o ErrorText(r.readErr))]
        ELSE IF ret.err # NoError
        THEN [invoked |-> TRUE, event |-> NewEvent(r),
              w |-> WriteFailure(h0, "Failed executing handler: " \o ErrorText(ret.err))]
        ELSE IF ~resBody.ok
        THEN [invoked |-> TRUE, event |-> NewEvent(r),
              w |-> WriteFailure(h0, "Handler returned invalid base64 data: "
                                     \o "illegal base64 data")]
        ELSE [invoked |-> TRUE, event |-> NewEvent(r),
              w |-> [header |-> WriteSingleValueHeaders(
                                    WriteMultiValueHeaders(h0, ret.MultiValueHeaders),
                                    ret.res.Headers),
                     status |-> ret.res.StatusCode,
                     body |-> resBody.bytes]]

\* The requests the adapter is given.
NativeHeaders ==
    {EmptyMap,
     ("Accept" :> <<"a/b">>),
     (ContentTypeKey :> <<"multipart/form-data; boundary=xyz">>)
         @@ ("Accept" :> <<"a/b", "c/d">>),
     (ContentTypeKey :> <<"multipart/form-data">>) @@ ("X-Empty" :> <<>>),
     (ContentTypeKey :> <<"application/json">>)
         @@ ("Authorization" :> <<"Bearer tok.expanded">>)}

NativeQueries ==
    {EmptyMap,
     ("id" :> <<"1">>),
     ("id" :> <<"1", "2">>) @@ ("q" :> <<"x">>) @@ ("none" :> <<>>)}

HTTPRequests ==
    [Method : {"POST"}, Path : {"/books"}, Header : NativeHeaders, Query : NativeQueries,
     Body : {"", "hi,v"},
     readErr : {NoError, [kind |-> "errorString", text |-> "unexpected EOF"]}]

\* What the handler returns: responses of the Response Builder, and
\* responses put together by hand.  MultiValueHeaders, a field of the
\* response that the builders leave nil, is kept beside res.
HandlerReturns ==
    {[res |-> x.res, MultiValueHeaders |-> EmptyMap, err |-> x.err] :
        x \in {Empty,
               FileB64("text/csv", NilMap, "hi,v"),
               File("text/csv", MakeMap("key" :> "value"), "hi,v"),
               Error([kind |-> "HTTPError", Status |-> 400, Message |-> "Invalid input"])}}
    \cup
    [res : [StatusCode : {200}, IsBase64Encoded : BOOLEAN,
            Headers : {EmptyMap,
                       ("Set-Cookie" :> "c=3") @@ ("X-Empty" :> "y")
                           @@ (ContentTypeKey :> "text/plain")
                           @@ (CORSOriginHeaderKey :> "https://handler.example")},
            Body : {"aGk=", "aGk", "hi"}],
     MultiValueHeaders :
        {EmptyMap,
         ("Set-Cookie" :> <<"a=1", "b=2">>),
         ("X-Empty" :> <<"", "x">>) @@ ("X-None" :> <<>>)
             @@ (CORSOriginHeaderKey :> <<"https://a.example", "https://b.example">>)},
     err : MockErrors]

NoHTTPReq == [Method |-> ""]
NoEvent == [HTTPMethod |-> ""]
NoReturn == [err |-> NoError]
NewWriter == [header |-> EmptyMap, status |-> 0, body |-> ""]

InitHTTP ==
    /\ httpReq = NoHTTPReq /\ event = NoEvent /\ hret = NoReturn /\ w = NewWriter

\* The server hands a request and a fresh ResponseWriter to the router.
ServeHTTPCall ==
    /\ w = NewWriter
    /\ \E r \in HTTPRequests, ret \in HandlerReturns :
        LET s == ServeHTTP(r, ret)
        IN  /\ httpReq' = r
            /\ event' = IF r.readErr = NoError THEN s.event ELSE NoEvent
            /\ hret' = IF s.invoked THEN ret ELSE NoReturn
            /\ w' = s.w
            /\ UNCHANGED <<cfgVars, resVars, mwVars, paramVars, concVars, heapVars>>

\* The server has sent what was written; the next request gets a new writer.
SendResponse ==
    /\ w # NewWriter
    /\ httpReq' = NoHTTPReq /\ event' = NoEvent /\ hret' = NoReturn /\ w' = NewWriter
    /\ UNCHANGED <<cfgVars, resVars, mwVars, paramVars, concVars, heapVars>>

vars == <<ExposeServerErrors, env, call, out, build, req, chain, handler, ctxs,
          retStack, trace, lparams, got, httpReq, event, hret, w, peer, held>>

InitMW ==
    /\ build = "lmw.go" /\ req = NoReq /\ chain = <<>> /\ handler = NoHandler
    /\ ctxs = <<>> /\ retStack = <<>> /\ trace = <<>>

Init ==
    /\ ExposeServerErrors = TRUE
    /\ env = [k \in CORSEnvKeys |-> ""]
    /\ call = NoCall
    /\ out = NoOut
    /\ InitMW
    /\ InitParams
    /\ InitHTTP
    /\ peer = NoPeer
    /\ held = NilMap

\* A process started under any configuration of the flag, with the CORS
\* variables all unset or all set.
InitConfigured ==
    /\ ExposeServerErrors \in BOOLEAN
    /\ env \in {[k \in CORSEnvKeys |-> ""], [k \in CORSEnvKeys |-> CORSValueOf(k)]}
    /\ call = NoCall
    /\ out = NoOut
    /\ InitMW
    /\ InitParams
    /\ InitHTTP
    /\ peer = NoPeer
    /\ held = NilMap

NextRes ==
    \/ SetExposeServerErrors
    \/ Setenv
    \/ Unsetenv
    \/ CallCustom
    \/ CallEmpty
    \/ CallSuccess
    \/ CallError
    \/ CallStatusAndError
    \/ CallFile
    \/ CallFileB64
    \/ TakeResponse

NextMW ==
    \/ NewRequest
    \/ LogRequestMWCall
    \/ LogRequestMWReturn
    \/ InjectLambdaContextMWCall
    \/ DecodeStandardMWCall
    \/ DecodeExpandedMWCall
    \/ ReturnFromNext
    \/ RunHandler
    \/ Respond

NextHTTP ==
    \/ ServeHTTPCall
    \/ SendResponse
    \/ (w = NewWriter /\ SetExposeServerErrors)
    \/ (w = NewWriter /\ Setenv)
    \/ (w = NewWriter /\ Unsetenv)

\* The Transport Adapter serving requests, the configuration changing between them.
SpecHTTP == Init /\ [][NextHTTP]_vars

NextParams ==
    \/ CallGetID
    \/ CallGetUserID
    \/ CallGetUserType

\* The parameter getters called on arbitrary LambdaParams.
SpecParams == Init /\ [][NextParams]_vars

NextConc ==
    \/ ConcStart
    \/ LogRequestMWCall
    \/ LogRequestMWReturn
    \/ InjectLambdaContextMWCall
    \/ DecodeStandardMWCall
    \/ DecodeExpandedMWCall
    \/ ReturnFromNext
    \/ RunHandler
    \/ PeerCall
    \/ PeerHandler
    \/ PeerReturn
    \/ ConcRespond

\* Two requests served concurrently under a configuration fixed at start.
SpecConc == InitConfigured /\ [][NextConc]_vars

NextAlias ==
    \/ MakeHeaderMap
    \/ BuildCustom
    \/ BuildFile
    \/ BuildFileB64
    \/ Setenv
    \/ Unsetenv

\* A caller building responses with a header map it keeps, the CORS
\* variables changing between the builds.
SpecAlias == Init /\ [][NextAlias]_vars

\* The Response Builder driven by arbitrary callers under a changing configuration.
SpecRes == Init /\ [][NextRes]_vars

\* The middleware pipeline serving requests under a configuration fixed at start.
SpecMW == InitConfigured /\ [][NextMW]_vars

-----------------------------------------------------------------------------
(* Properties of the Response Builder, checked under SpecRes *)

GenericMessage == "the server has encountered an unexpected error"

\* The status Error / StatusAndError resolve for the call made last.
ResolvedStatus ==
    IF call.fn = "StatusAndError" THEN call.httpStatus
    ELSE IF errorsAs(call.err).ok THEN errorsAs(call.err).target.Status
    ELSE 500

\* The message of the error handed to the call made last: the Message of the
\* HTTPError that Error finds, the text of the error otherwise.
OriginalMessage ==
    IF call.fn = "Error" /\ errorsAs(call.err).ok
    THEN errorsAs(call.err).target.Message
    ELSE ErrorText(call.err)

\* C1: for Error and StatusAndError the body's message is the reason phrase
\* of the resolved status exactly when that status is >= 500 and
\* ExposeServerErrors is false, and the original message in every other
\* case; the response status is the resolved status under either flag value.
C1_DetailSuppression ==
    call.fn \in {"Error", "StatusAndError"} =>
        /\ out.res.StatusCode = ResolvedStatus
        /\ out.res.Body =
              MarshalHTTPError(ResolvedStatus,
                  IF ResolvedStatus >= 500 /\ ~ExposeServerErrors
                  THEN StatusText(ResolvedStatus) ELSE OriginalMessage)

C1_Witness ==
    /\ call.fn = "Error"
    /\ call.err = [kind |-> "HTTPError", Status |-> 500, Message |-> "database down"]
    /\ ~ExposeServerErrors
    /\ out.res.StatusCode = 500
    /\ out.res.Body = "{\"status\":500,\"message\":\"Internal Server Error\"}"

\* C2: Custom (and Success, which wraps it) on a value json.Marshal rejects
\* answers status 500 with the body {"status":500,"message":<generic text>},
\* whatever status was requested and whatever ExposeServerErrors holds.
C2_SerializationFailure ==
    (call.fn \in {"Custom", "Success"} /\ jsonMarshal(call.data).failed) =>
        /\ out.res.StatusCode = 500
        /\ out.res.Body = MarshalHTTPError(500, GenericMessage)

\* C3: Error answers with the status and message of the HTTPError that err
\* carries; any other error is answered as status 500 with err's text.  The
\* message is compared where ExposeServerErrors does not suppress it.
C3_ErrorStatusResolution ==
    call.fn = "Error" =>
        LET e == call.err
            shown == ~(out.res.StatusCode >= 500 /\ ~ExposeServerErrors)
        IN  CASE e.kind = "HTTPError" ->
                    /\ out.res.StatusCode = e.Status
                    /\ shown => out.res.Body = MarshalHTTPError(e.Status, e.Message)
              [] e.kind = "wrapError" ->
                    /\ out.res.StatusCode = e.inner.Status
                    /\ shown => out.res.Body =
                                   MarshalHTTPError(e.inner.Status, e.inner.Message)
              [] OTHER ->
                    /\ out.res.StatusCode = 500
                    /\ shown => out.res.Body = MarshalHTTPError(500, ErrorText(e))

C3_Witness ==
    /\ call.fn = "Error"
    /\ call.err = [kind |-> "HTTPError", Status |-> 400, Message |-> "Invalid input"]
    /\ out.res.StatusCode = 400
    /\ out.res.Body = "{\"status\":400,\"message\":\"Invalid input\"}"

\* C4: every response of the Response Builder carries, for each CORS variable
\* that is non-empty, that value under its Access-Control-Allow-* header, in
\* place of whatever the caller supplied there; for an empty or unset
\* variable the header is as the caller supplied it, absent if not supplied.
C4_CorsInjection ==
    call.fn # "none" =>
        \A k \in CORSEnvKeys :
            LET h == CORSHeaderOf(k)
                supplied == ~call.headers.isNil /\ h \in DOMAIN call.headers.m
            IN  IF env[k] # ""
                THEN h \in DOMAIN out.res.Headers /\ out.res.Headers[h] = env[k]
                ELSE IF supplied
                THEN h \in DOMAIN out.res.Headers
                     /\ out.res.Headers[h] = call.headers.m[h]
                ELSE h \notin DOMAIN out.res.Headers

C4_Witness ==
    /\ call.fn = "FileB64"
    /\ ~call.headers.isNil
    /\ CORSOriginHeaderKey \in DOMAIN call.headers.m
    /\ call.headers.m[CORSOriginHeaderKey] = "https://caller.example"
    /\ env[CORSOriginEnvKey] = "*"
    /\ env[CORSHeadersEnvKey] = ""
    /\ out.res.Headers[CORSOriginHeaderKey] = "*"
    /\ CORSHeadersHeaderKey \notin DOMAIN out.res.Headers

-----------------------------------------------------------------------------
(* Properties of the middleware pipeline, checked under SpecMW *)

DecodeMW == {"DecodeStandardMW", "DecodeExpandedMW"}

\* How often stage k was invoked, and where in the trace it was entered/left.
EnteredCount(k) ==
    Cardinality({i \in DOMAIN trace : trace[i].ev = "enter" /\ trace[i].stage = k})
Pos(ev, k) == CHOOSE i \in DOMAIN trace : trace[i].ev = ev /\ trace[i].stage = k
LogsOf(k) == {i \in DOMAIN trace : trace[i].ev = "log" /\ trace[i].stage = k}

\* C5: under either decode middleware a request without an Authorization
\* header is answered 400 with the body {"status":400,"message":<text of
\* ErrNoAuthorizationHeader>} and a nil error, and next is not invoked.
C5_MissingAuthorization ==
    \A k \in 1..Len(chain) :
        (/\ chain[k] \in DecodeMW
         /\ "Authorization" \notin DOMAIN req.Headers.m
         /\ EnteredCount(k) > 0) =>
            /\ Returned(k)
            /\ RetOf(k).res.StatusCode = 400
            /\ RetOf(k).res.Body =
                  MarshalHTTPError(400, ErrorText(ErrNoAuthorizationHeader))
            /\ RetOf(k).err = NoError
            /\ EnteredCount(k + 1) = 0

C5_Witness ==
    /\ Done
    /\ chain = <<"DecodeExpandedMW">>
    /\ req.Headers.isNil
    /\ RetOf(1).res.StatusCode = 400
    /\ RetOf(1).res.Body = "{\"status\":400,\"message\":\"no authorization header\"}"

\* The claims of the request's token, where it verifies.
TokenVerifies == ExtractJWT(req.Headers).err.kind = "nil"
TokenClaims == ExtractJWT(req.Headers).mapClaims
FieldsOf(mw) == IF mw = "DecodeStandardMW" THEN StandardFields ELSE ExpandedFields

\* Every claim the token carries has the type the variant gives its field.
TokenBinds(fields) ==
    \A i \in 1..Len(fields) :
        fields[i].key \in DOMAIN TokenClaims => TokenClaims[fields[i].key].t = fields[i].t

\* The value of a field that the token carries, its zero value otherwise.
TokenValue(f) ==
    IF f.key \in DOMAIN TokenClaims THEN TokenClaims[f.key].v
    ELSE IF f.t = "string" THEN "" ELSE 0

\* Stage k, a decode middleware, invoked next once with every claim field
\* bound to the token's value, and returned what next returned.
RoundTrip(k) ==
    LET fields == FieldsOf(chain[k])
    IN  /\ EnteredCount(k + 1) = 1
        /\ \A i \in 1..Len(fields) :
              /\ fields[i].key \in DOMAIN ctxs[k + 1]
              /\ ctxs[k + 1][fields[i].key] = TokenValue(fields[i])
        /\ \A key \in DOMAIN ctxs[k] \ {fields[i].key : i \in 1..Len(fields)} :
              key \in DOMAIN ctxs[k + 1] /\ ctxs[k + 1][key] = ctxs[k][key]
        /\ Returned(k + 1)
        /\ RetOf(k) = RetOf(k + 1)
        /\ (handler.kind = "MapExpandedContext" /\ k = Len(chain)) =>
              RetOf(k).res.Body =
                  "{" \o MarshalClaims([key \in {ExpandedFields[i].key : i \in 1..12} |->
                                           TokenValue(ExpandedFields[
                                               CHOOSE i \in 1..12 : ExpandedFields[i].key = key])],
                                       ExpandedFields, 1) \o "}"

\* C6 as claimed: whenever the token verifies, the decode middleware invokes
\* next exactly once with every claim field of its variant bound to the
\* token's value, and returns next's response.
C6_RoundTripEveryVerifiedToken ==
    \A k \in 1..Len(chain) :
        (chain[k] \in DecodeMW /\ TokenVerifies /\ Returned(k)) => RoundTrip(k)

\* C6 as amended: the same for a token that verifies and whose claims have
\* the types of the chosen variant.
C6_RoundTrip ==
    \A k \in 1..Len(chain) :
        (/\ chain[k] \in DecodeMW
         /\ TokenVerifies
         /\ TokenBinds(FieldsOf(chain[k]))
         /\ Returned(k)) => RoundTrip(k)

C6_Witness ==
    /\ Done
    /\ chain = <<"DecodeExpandedMW">>
    /\ handler.kind = "MapExpandedContext"
    /\ "Authorization" \in DOMAIN req.Headers.m
    /\ req.Headers.m["Authorization"] = "Bearer tok.expanded"
    /\ Len(ctxs) = 2
    /\ ctxs[2][JWTClaimEmailKey] = "a@b.example"
    /\ ctxs[2][JWTClaimExpiresAtKey] = 1704500640
    /\ RetOf(1).res.StatusCode = 200

C8_CompositionOrder ==
    /\ \A i, j \in 1..Len(ctxs) :
          (i < j /\ EnteredCount(j) > 0) =>
              /\ EnteredCount(i) = 1
              /\ Pos("enter", i) < Pos("enter", j)
              /\ Returned(i) => /\ Returned(j)
                                /\ Pos("enter", j) < Pos("return", j)
                                /\ Pos("return", j) < Pos("return", i)
    /\ \A i, j \in 1..Len(chain) :
          (i < j /\ chain[i] = "InjectLambdaContextMW" /\ chain[j] = "LogRequestMW") =>
              \A n \in LogsOf(j) :
                  LET f == trace[n].rec.fields
                      has(key, v) == key \in DOMAIN f /\ f[key] = v
                  IN  trace[n].rec.level # "debug" =>
                          /\ has(LambdaContextMethodKey, req.HTTPMethod)
                          /\ req.RequestID # "" => has(LambdaContextRequestIDKey, req.RequestID)
                          /\ req.Path # "" => has(LambdaContextPathKey, req.Path)
                          /\ has(LambdaContextPathParamsKey, req.PathParameters)
                          /\ has(LambdaContextQueryParamsKey, req.QueryStringParameters)
                          /\ has(LambdaContextMultiParamsKey,
                                 req.MultiValueQueryStringParameters)

C8_Witness ==
    /\ Done
    /\ chain = <<"InjectLambdaContextMW", "LogRequestMW">>
    /\ handler.kind = "mockHandler"
    /\ trace[1] = Enter(1) /\ trace[2] = Enter(2) /\ trace[3] = Enter(3)
    /\ trace[4] = Leave(3)
    /\ trace[5].ev = "log" /\ trace[5].stage = 2
    /\ trace[5].rec.level # "debug"
    /\ req.Path = "/hi/there"
    /\ trace[5].rec.fields[LambdaContextPathKey] = "/hi/there"
    /\ trace[5].rec.fields[LambdaContextPathParamsKey] =
          MakeMap(("id" :> "1") @@ ("pathKey" :> "pathVal"))
    /\ trace[Len(trace) - 1] = Leave(2)
    /\ trace[Len(trace)] = Leave(1)

\* C9: LogRequestMW returns exactly the response and the error next returned.
C9_LogPreservesResult ==
    \A k \in 1..Len(chain) :
        (chain[k] = "LogRequestMW" /\ Returned(k)) => RetOf(k) = RetOf(k + 1)

\* C10: LogRequestMW invokes next exactly once, emits no log record before
\* next has returned and exactly one after it, whatever the outcome.
C10_ExactlyOneLogRecord ==
    \A k \in 1..Len(chain) :
        (chain[k] = "LogRequestMW" /\ EnteredCount(k) > 0) =>
            /\ EnteredCount(k + 1) <= 1
            /\ Returned(k) => EnteredCount(k + 1) = 1
            /\ ~Returned(k + 1) => LogsOf(k) = {}
            /\ \A n \in LogsOf(k) : Pos("return", k + 1) < n
            /\ Returned(k) => Cardinality(LogsOf(k)) = 1

\* C11: InjectLambdaContextMW invokes next exactly once for every request,
\* also one whose body does not unmarshal, and returns what next returned;
\* it never answers by itself.
C11_InjectNeverFails ==
    \A k \in 1..Len(chain) :
        (chain[k] = "InjectLambdaContextMW" /\ EnteredCount(k) > 0) =>
            /\ EnteredCount(k + 1) <= 1
            /\ Returned(k) => /\ EnteredCount(k + 1) = 1
                              /\ RetOf(k) = RetOf(k + 1)

\* The context keys by the Go type of the value bound under them.
StringKeys ==
    {LambdaContextIDKey, LambdaContextMethodKey, LambdaContextPathKey,
     LambdaContextRequestIDKey, LambdaContextUserIDKey, LambdaContextUserTypeKey,
     JWTClaimAudienceKey, JWTClaimEmailKey, JWTClaimFirstNameKey, JWTClaimFullNameKey,
     JWTClaimIDKey, JWTClaimIssuerKey, JWTClaimLevelKey, JWTClaimSubjectKey,
     JWTClaimUserTypeKey}
MapKeys ==
    {LambdaContextMultiParamsKey, LambdaContextPathParamsKey, LambdaContextQueryParamsKey}

\* C12: from stage to stage the context only gains keys, and no key is ever
\* bound to an empty string or to an absent (nil) value.
C12_ContextInvariant ==
    /\ \A k \in 1..(Len(ctxs) - 1) : DOMAIN ctxs[k] \subseteq DOMAIN ctxs[k + 1]
    /\ \A k \in 1..Len(ctxs) : \A key \in DOMAIN ctxs[k] :
          /\ key \in StringKeys => ctxs[k][key] # ""
          /\ key \in MapKeys => ~ctxs[k][key].isNil

-----------------------------------------------------------------------------
(* Properties of parameter resolution, checked under SpecParams *)

\* The candidates of the getter called last, in the order path, query, body.
CandidatesOf ==
    CASE got.fn = "GetID" -> <<lparams.IDPath, lparams.IDQuery>>
      [] got.fn = "GetUserID" -> <<lparams.UserIDPath, lparams.UserIDQuery, lparams.UserIDBody>>
      [] got.fn = "GetUserType" -> <<lparams.UserTypePath, lparams.UserTypeQuery, lparams.UserTypeBody>>

\* got.v is the first of the candidates that are longest by the measure size.
FirstLongest(size(_)) ==
    \E i \in DOMAIN CandidatesOf :
        /\ got.v = CandidatesOf[i]
        /\ \A j \in DOMAIN CandidatesOf : size(CandidatesOf[j]) <= size(CandidatesOf[i])
        /\ \A j \in 1..(i - 1) : size(CandidatesOf[j]) < size(CandidatesOf[i])

\* C13 as claimed, the length of a candidate being its number of characters:
\* the getter returns the longest candidate, the first of the longest in the
\* order path, query, body.
C13_LongestCharacters == got.fn # "none" => FirstLongest(Len)

\* C13 as amended: the same with the length of a candidate being its number
\* of bytes, which is what chooseLongest compares.
C13_LongestBytes == got.fn # "none" => FirstLongest(len)

C13_Witness ==
    /\ got.fn = "GetUserID"
    /\ lparams.UserIDPath = "abc" /\ lparams.UserIDQuery = "de" /\ lparams.UserIDBody = "fghij"
    /\ got.v = "fghij"

-----------------------------------------------------------------------------
(* Properties of the Transport Adapter, checked under SpecHTTP *)

\* The handler was handed an event, and it returned without error a body
\* that can be written.
Served == event # NoEvent
Succeeded ==
    /\ Served
    /\ hret.err = NoError
    /\ hret.res.IsBase64Encoded => DecodeString(hret.res.Body).ok

\* The single-value map single holds exactly the keys of multi that have one
\* value, with that value.
SingleValued(single, multi) ==
    /\ DOMAIN single \subseteq DOMAIN multi
    /\ \A key \in DOMAIN multi :
          /\ key \in DOMAIN single <=> Len(multi[key]) = 1
          /\ key \in DOMAIN single => single[key] = multi[key][1]

\* C14: a header or query key is in the event's single-value map exactly
\* when it has one value, and then with that value; the multi-value maps
\* hold every key with all of its values.
C14_RequestTranslation ==
    Served =>
        /\ SingleValued(event.Headers.m, httpReq.Header)
        /\ SingleValued(event.QueryStringParameters.m, httpReq.Query)
        /\ event.MultiValueHeaders = httpReq.Header
        /\ event.MultiValueQueryStringParameters = httpReq.Query

C14_Witness ==
    /\ Served
    /\ httpReq.Header = (ContentTypeKey :> <<"multipart/form-data; boundary=xyz">>)
                            @@ ("Accept" :> <<"a/b", "c/d">>)
    /\ httpReq.Query = ("id" :> <<"1", "2">>) @@ ("q" :> <<"x">>) @@ ("none" :> <<>>)
    /\ DOMAIN event.Headers.m = {ContentTypeKey}
    /\ event.QueryStringParameters.m = ("q" :> "x")

\* The first Content-Type of the request, "" for none.
RequestContentType ==
    IF ContentTypeKey \in DOMAIN httpReq.Header /\ httpReq.Header[ContentTypeKey] # <<>>
    THEN httpReq.Header[ContentTypeKey][1] ELSE ""

\* C15: the event is flagged base64 and carries the base64 text of the
\* request body exactly when the Content-Type starts with the multipart form
\* prefix; otherwise it is not flagged and carries the body as it is.
C15_InboundBody ==
    Served =>
        IF HasPrefix(RequestContentType, "multipart/form-data; boundary")
        THEN /\ event.IsBase64Encoded
             /\ DecodeString(event.Body) = [ok |-> TRUE, bytes |-> httpReq.Body]
        ELSE /\ ~event.IsBase64Encoded
             /\ event.Body = httpReq.Body

C15_Witness ==
    /\ Served
    /\ RequestContentType = "multipart/form-data; boundary=xyz"
    /\ httpReq.Body = "hi,v"
    /\ event.IsBase64Encoded
    /\ event.Body = "aGksdg=="

\* C16: when the handler succeeds its status code is written, with the
\* decoded body of a response flagged base64 and the body as it is
\* otherwise; a FileB64 response is written as the bytes of the file.
C16_OutboundBody ==
    Succeeded =>
        /\ w.status = hret.res.StatusCode
        /\ w.body = IF hret.res.IsBase64Encoded
                    THEN DecodeString(hret.res.Body).bytes ELSE hret.res.Body
        /\ \A bytes \in FileContents :
              hret.res = FileB64("text/csv", NilMap, bytes).res => w.body = bytes

C16_Witness ==
    /\ Succeeded
    /\ hret.res = FileB64("text/csv", NilMap, "hi,v").res
    /\ hret.res.Body = "aGksdg=="
    /\ w.status = 200
    /\ w.body = "hi,v"

\* The header names the adapter has set from the CORS configuration.
CORSNamesSet == {CORSHeaderOf(k) : k \in {x \in CORSEnvKeys : env[x] # ""}}
CORSValueSet(name) == env[CHOOSE k \in CORSEnvKeys : CORSHeaderOf(k) = name]

\* C17: on success the transport carries, for every name of the response's
\* multi-value headers, exactly the values listed, in order; a single-value
\* header is written if and only if its name was not set on the transport
\* before, so it never replaces what was written before it.
C17_ResponseHeaders ==
    Succeeded =>
        LET mvh == hret.MultiValueHeaders
            written == {n \in DOMAIN mvh : mvh[n] # <<>>}
        IN  /\ \A n \in written : n \in DOMAIN w.header /\ w.header[n] = mvh[n]
            /\ \A n \in DOMAIN hret.res.Headers :
                  /\ n \in DOMAIN w.header
                  /\ w.header[n] = IF n \in written THEN mvh[n]
                                   ELSE IF n \in CORSNamesSet THEN <<CORSValueSet(n)>>
                                   ELSE <<hret.res.Headers[n]>>

\* A request was served and ended on one of the three failure paths.
Failed == httpReq # NoHTTPReq /\ ~Succeeded

\* The failure is answered with status 500 and a JSON error body, and no
\* status, header or body of the handler's response is written.
FailureWritten ==
    /\ w.status = 500
    /\ w.body = "{\"error\":\"" \o
            (IF httpReq.readErr # NoError THEN "Failed reading req body: unexpected EOF"
             ELSE IF hret.err # NoError THEN "Failed executing handler: boom"
             ELSE "Handler returned invalid base64 data: illegal base64 data")
            \o "\"}\n"
    /\ DOMAIN w.header \subseteq {ContentTypeKey} \cup CORSNamesSet
    /\ w.header[ContentTypeKey] = <<JSONContentType>>

-----------------------------------------------------------------------------
(* Further properties of the Response Builder, checked under SpecRes *)

\* The call made last produced an error body: Error, StatusAndError, or a
\* Custom / Success whose data json.Marshal rejects.
ErrorBodyProduced ==
    \/ call.fn \in {"Error", "StatusAndError"}
    \/ call.fn \in {"Custom", "Success"} /\ jsonMarshal(call.data).failed

\* C19: every error body of the Response Builder is the JSON object
\* {"status":<int>,"message":<string>} and nothing else, its status being
\* the StatusCode of the response that carries it.
C19_ErrorBodyFormat ==
    ErrorBodyProduced =>
        LET body == out.res.Body
            head == "{\"status\":" \o ToString(out.res.StatusCode) \o ",\"message\":\""
        IN  /\ HasPrefix(body, head)
            /\ Len(body) >= Len(head) + 2
            /\ SubSeq(body, Len(body) - 1, Len(body)) = "\"}"

\* The headers of the call made last that are neither Content-Type nor an
\* Access-Control-Allow-* header.
OtherCallerHeaders ==
    IF call.headers.isNil THEN {}
    ELSE DOMAIN call.headers.m
             \ ({ContentTypeKey} \cup {CORSHeaderOf(k) : k \in CORSEnvKeys})

\* C20: FileB64 answers 200, flagged base64, with a body that decodes to the
\* bytes given; File answers 200, not flagged, with the bytes as body; in both
\* Content-Type is the contentType argument, whatever the caller's map held
\* there, and every other header of the caller that is no CORS header is kept.
C20_FilePayload ==
    call.fn \in {"File", "FileB64"} =>
        /\ out.err = NoError
        /\ out.res.StatusCode = 200
        /\ out.res.IsBase64Encoded = (call.fn = "FileB64")
        /\ IF call.fn = "FileB64"
           THEN DecodeString(out.res.Body) = [ok |-> TRUE, bytes |-> call.fileBytes]
           ELSE out.res.Body = call.fileBytes
        /\ ContentTypeKey \in DOMAIN out.res.Headers
        /\ out.res.Headers[ContentTypeKey] = call.contentType
        /\ \A h \in OtherCallerHeaders :
              h \in DOMAIN out.res.Headers /\ out.res.Headers[h] = call.headers.m[h]

C20_Witness ==
    /\ call.fn = "FileB64"
    /\ call.contentType = "image/png"
    /\ call.fileBytes = "hi,v"
    /\ ~call.headers.isNil
    /\ DOMAIN call.headers.m = {CORSHeadersHeaderKey, CORSMethodsHeaderKey, ContentTypeKey}
    /\ out.res.Body = "aGksdg=="
    /\ out.res.Headers[ContentTypeKey] = "image/png"

-----------------------------------------------------------------------------
(* Further properties of the middleware pipeline, checked under SpecMW *)

\* The status a decode middleware answers a failing request with: the one
\* token extraction reports, 500 for a claim of the wrong type.
DecodeFailureStatus ==
    LET h == MapGet(req.Headers.m, "Authorization")
    IN  IF ~HasPrefix(h, BearerPrefix) THEN 400
        ELSE IF h = BearerPrefix \o "tok.tampered" THEN 401
        ELSE 500

\* C21: when token extraction, verification or claim binding fails in a
\* decode middleware, the middleware returns a response with a nil error,
\* never invokes next, and the status is 400 for a missing header, 401 or
\* 500 for a token that does not verify, 500 for a claim-shape failure; the
\* body is the HTTPError of that status.
C21_DecodeFailure ==
    \A k \in 1..Len(chain) :
        (/\ chain[k] \in DecodeMW
         /\ EnteredCount(k) > 0
         /\ (~TokenVerifies \/ ~TokenBinds(FieldsOf(chain[k])))) =>
            /\ Returned(k)
            /\ RetOf(k).err = NoError
            /\ EnteredCount(k + 1) = 0
            /\ Len(ctxs) = k
            /\ RetOf(k).res.StatusCode = DecodeFailureStatus
            /\ \E m \in {"no authorization header", "invalid token", "verification failed",
                         "cannot unmarshal claims", "Internal Server Error"} :
                  RetOf(k).res.Body = MarshalHTTPError(DecodeFailureStatus, m)

C21_Witness ==
    /\ Done
    /\ chain = <<"DecodeExpandedMW">>
    /\ "Authorization" \in DOMAIN req.Headers.m
    /\ req.Headers.m["Authorization"] = "Bearer tok.badshape"
    /\ trace = <<Enter(1), Leave(1)>>
    /\ RetOf(1).err = NoError
    /\ RetOf(1).res.StatusCode = 500

-----------------------------------------------------------------------------
(* Further properties of the Response Builder, checked under SpecRes *)

\* C22: every response build reads the three CORS variables as they stand
\* at that build: a variable that is set is carried with its value, and a
\* variable that is unset (also one that was set before) leaves its header
\* absent unless the caller's map held it, with the caller's value.
C22_CorsReadAtBuild ==
    [][(call.fn = "none" /\ call'.fn # "none") =>
          \A k \in CORSEnvKeys :
              LET h == CORSHeaderOf(k)
                  given == ~call'.headers.isNil /\ h \in DOMAIN call'.headers.m
              IN  IF env[k] # ""
                  THEN h \in DOMAIN out'.res.Headers /\ out'.res.Headers[h] = env[k]
                  ELSE /\ h \in DOMAIN out'.res.Headers <=> given
                       /\ given => out'.res.Headers[h] = call'.headers.m[h]]_vars

\* A build made while one variable is set and the two others are not.
C22_Witness ==
    /\ call.fn = "Success"
    /\ env[CORSMethodsEnvKey] = "GET,POST"
    /\ env[CORSOriginEnvKey] = "" /\ env[CORSHeadersEnvKey] = ""
    /\ DOMAIN out.res.Headers = {ContentTypeKey, CORSMethodsHeaderKey}
    /\ out.res.Headers[CORSMethodsHeaderKey] = "GET,POST"

\* C24: the message of every error response of Error and StatusAndError is
\* not empty, whatever the error, the status and ExposeServerErrors are.
C24_MessageNeverEmpty ==
    call.fn \in {"Error", "StatusAndError"} =>
        out.res.Body # MarshalHTTPError(out.res.StatusCode, "")

\* strings.Contains
Contains(s, sub) ==
    \E i \in 0..(Len(s) - Len(sub)) : SubSeq(s, i + 1, i + Len(sub)) = sub

\* The log output of stage k holds the string v, in the text of a record or
\* as the value logged under key.
Mentions(k, key, v) ==
    \E n \in LogsOf(k) :
        LET rec == trace[n].rec
        IN  \/ Contains(rec.msg, v)
            \/ key \in DOMAIN rec.fields /\ rec.fields[key] = v

\* The status LogRequestMW logs for what next returned.
LoggedStatus(ret) ==
    IF ret.err.kind # "nil" THEN StatusInternalServerError ELSE ret.res.StatusCode

\* C25: what LogRequestMW logs for a request holds the method, the path,
\* the status code and the request id; for a status >= 400 (a non-nil error
\* counting as 500) there is a record at error level that holds the
\* response body and every context value that is populated; for any other
\* status the output is at info level and holds no body.
C25_LogContent ==
    \A k \in 1..Len(chain) :
        (chain[k] = "LogRequestMW" /\ Returned(k)) =>
            LET status == LoggedStatus(RetOf(k + 1))
                body == JSONString(RetOf(k + 1).res.Body)
            IN  /\ Mentions(k, LambdaContextMethodKey, req.HTTPMethod)
                /\ Mentions(k, LambdaContextPathKey, req.Path)
                /\ Mentions(k, LambdaContextRequestIDKey, req.RequestID)
                /\ \E n \in LogsOf(k) :
                      \/ Contains(trace[n].rec.msg, ToString(status))
                      \/ /\ "statusCode" \in DOMAIN trace[n].rec.ints
                         /\ trace[n].rec.ints["statusCode"] = status
                /\ IF status >= 400
                   THEN \E n \in LogsOf(k) :
                            /\ trace[n].rec.level = "error"
                            /\ Contains(trace[n].rec.raw.json, body)
                            /\ \A key \in LogKeys \cap DOMAIN ctxs[k] :
                                  /\ key \in DOMAIN trace[n].rec.fields
                                  /\ trace[n].rec.fields[key] = ctxs[k][key]
                   ELSE \A n \in LogsOf(k) :
                            /\ trace[n].rec.level = "info"
                            /\ trace[n].rec.raw = NoRaw

\* C26: the AllowOptionsMW handler answers every request it is invoked with,
\* whatever its method, headers and context, with the 200 empty response
\* and a nil error, and no stage runs after it was entered.
C26_AllowOptionsIgnoresRequest ==
    LET k == Len(chain) + 1
    IN  (handler.kind = "AllowOptionsMW" /\ EnteredCount(k) > 0) =>
            /\ Returned(k)
            /\ RetOf(k).err = NoError
            /\ RetOf(k).res.StatusCode = 200
            /\ RetOf(k).res.Body = "{}"
            /\ ~RetOf(k).res.IsBase64Encoded
            /\ ContentTypeKey \in DOMAIN RetOf(k).res.Headers
            /\ RetOf(k).res.Headers[ContentTypeKey] = JSONContentType
            /\ DOMAIN RetOf(k).res.Headers \ {ContentTypeKey} =
                  {CORSHeaderOf(e) : e \in {x \in CORSEnvKeys : env[x] # ""}}
            /\ Len(ctxs) = k
            /\ \A i \in DOMAIN trace :
                  i > Pos("enter", k) => trace[i].ev # "enter"

\* A GET with a token that does not verify and a populated context.
C26_Witness ==
    /\ Done
    /\ chain = <<"InjectLambdaContextMW">>
    /\ handler.kind = "AllowOptionsMW"
    /\ req.HTTPMethod = "GET"
    /\ "Authorization" \in DOMAIN req.Headers.m
    /\ req.Headers.m["Authorization"] = "Bearer tok.tampered"
    /\ Len(ctxs) = 2
    /\ LambdaContextPathKey \in DOMAIN ctxs[2]
    /\ RetOf(2).res.StatusCode = 200
    /\ RetOf(2).res.Body = "{}"

\* C27: a build with a non-nil header map returns that map as the
\* response's Headers: after the build the caller's map holds the
\* Content-Type of the build and every CORS variable that is set, and every
\* other entry it held before, also those an earlier build wrote; a build
\* with a nil map leaves the caller with nil.  Checked under SpecAlias.
C27_HeaderAliasing ==
    [][call'.fn # "none" =>
          LET ct == IF call'.fn = "Custom" THEN JSONContentType ELSE call'.contentType
              written == {ContentTypeKey}
                         \cup {CORSHeaderOf(k) : k \in {x \in CORSEnvKeys : env[x] # ""}}
          IN  /\ call'.headers = held
              /\ DOMAIN out'.res.Headers = written \cup DOMAIN held.m
              /\ out'.res.Headers[ContentTypeKey] = ct
              /\ \A k \in CORSEnvKeys :
                    env[k] # "" => out'.res.Headers[CORSHeaderOf(k)] = env[k]
              /\ \A x \in DOMAIN held.m \ written : out'.res.Headers[x] = held.m[x]
              /\ IF held.isNil THEN held' = held
                 ELSE ~held'.isNil /\ held'.m = out'.res.Headers]_vars

\* A map reused: the second build, made after the origin variable was unset,
\* still carries the origin the first build wrote.
C27_Witness ==
    /\ call.fn = "File"
    /\ env[CORSOriginEnvKey] = ""
    /\ ~call.headers.isNil
    /\ CORSOriginHeaderKey \in DOMAIN call.headers.m
    /\ call.headers.m[CORSOriginHeaderKey] = "*"
    /\ call.headers.m[ContentTypeKey] = JSONContentType
    /\ out.res.Headers[CORSOriginHeaderKey] = "*"
    /\ out.res.Headers[ContentTypeKey] = "text/csv"
    /\ held = MakeMap(out.res.Headers)
    /\ "key" \in DOMAIN held.m

-----------------------------------------------------------------------------
(* Request independence, checked under SpecConc *)

\* A request processed alone from stage k on, invoked with ctx: what the
\* stage returns, and the context the terminal handler is invoked with
\* where it is reached.
RECURSIVE Alone(_, _, _)
Alone(k, ctx, r) ==
    IF k > Len(chain)
    THEN [ret |-> HandlerCall(handler, ctx, r), reached |-> TRUE, seen |-> ctx]
    ELSE LET step == StageCall(build, chain[k], ctx, r)
         IN  IF ~step.callNext
             THEN [ret |-> step.ret, reached |-> FALSE, seen |-> EmptyMap]
             ELSE LET inner == Alone(k + 1, step.ctx, r)
                  IN  [ret |-> StageReturn(build, chain[k], ctx, r, inner.ret).ret,
                       reached |-> inner.reached,
                       seen |-> inner.seen]

\* The stages of one request run one after another: what happened to it is
\* a sequence of stages entered outermost first and left innermost first,
\* no stage entered twice, and a log record only after the inner stage left.
Sequential(t) ==
    /\ \A i, j \in DOMAIN t :
          (i < j /\ t[i].ev = "enter" /\ t[j].ev = "enter") => t[i].stage < t[j].stage
    /\ \A i, j \in DOMAIN t :
          (i < j /\ t[i].ev = "return" /\ t[j].ev = "return") => t[i].stage > t[j].stage
    /\ \A i, j \in DOMAIN t :
          (t[i].ev = "enter" /\ t[j].ev = "return" /\ t[i].stage = t[j].stage) => i < j
    /\ \A i, j \in DOMAIN t :
          (t[i].ev = "log" /\ t[j].ev = "return" /\ t[j].stage = t[i].stage + 1) => j < i

\* One request of the two: its event, contexts, returns and trace.
First == [req |-> req, ctxs |-> ctxs, retStack |-> retStack, trace |-> trace]

\* The request p, as far as it has got, is where it would be when alone.
Independent(p) ==
    LET alone == Alone(1, EmptyMap, p.req)
        n == Len(chain) + 1
    IN  /\ Len(p.ctxs) = n => (alone.reached /\ p.ctxs[n] = alone.seen)
        /\ (Len(p.ctxs) < n /\ p.retStack # <<>>) => ~alone.reached
        /\ (p.ctxs # <<>> /\ Len(p.retStack) = Len(p.ctxs)) =>
              p.retStack[Len(p.retStack)] = alone.ret
        /\ Sequential(p.trace)

\* C23: of two requests in the same chain at once, in every interleaving
\* of their steps, each one's terminal handler is invoked with the context
\* derived from its own event and token, each one's response is the one it
\* gets when processed alone under the same configuration, and the stages
\* of each run strictly one after another.
C23_RequestIndependence ==
    (peer # NoPeer) => (Independent(First) /\ Independent(peer))

\* Both requests served, interleaved, with different tokens and events:
\* the first reached the handler with its own claims and path, the second
\* was turned away at the decode middleware.
C23_Witness ==
    /\ Done
    /\ chain = <<"InjectLambdaContextMW", "DecodeExpandedMW">>
    /\ build = "part_000"
    /\ handler.kind = "MapExpandedContext"
    /\ Len(peer.retStack) = 2 /\ Len(peer.ctxs) = 2
    /\ req.Headers = MakeMap("Authorization" :> "Bearer tok.expanded")
    /\ peer.req.Headers = MakeMap("Authorization" :> "Bearer tok.badshape")
    /\ req.RequestID = "req-1" /\ peer.req.RequestID = "req-2"
    /\ Len(ctxs) = 3
    /\ ctxs[3][LambdaContextRequestIDKey] = "req-1"
    /\ ctxs[3][JWTClaimEmailKey] = "a@b.example"
    /\ peer.ctxs[2][LambdaContextRequestIDKey] = "req-2"
    /\ RetOf(1).res.StatusCode = 200
    /\ peer.retStack[2].res.StatusCode = 500

====
